---- MODULE Spec2Model ----
(***************************************************************************)
(* gh-compare: the TTL cache (src/lib/cache.ts), the GitHub aggregation    *)
(* pipeline built on it (getUserInsights, compareUsers), the upstream      *)
(* clients, the meme client and the POST /api/compare route.               *)
(*                                                                         *)
(* Time is in milliseconds, as Date.now() is.  The clock advances in steps *)
(* of half the default TTL, so that an entry is observed inside its TTL,   *)
(* exactly at its expiry and after it.                                     *)
(***************************************************************************)
EXTENDS Integers, Sequences, FiniteSets, TLC

VARIABLES
  now,        \* Date.now()
  nextRef,    \* identity of the next object a factory or a set() caller creates
  store,      \* SpecCache: the Map of one TTLCache instance
  caller,     \* SpecCache: the remember() call each caller is suspended in, if any
  lastSet,    \* SpecCache, history: per key, the latest set() not followed by a clear
  lastOp,     \* SpecCache, history: the cache operation just performed and its result
  token,      \* env.GITHUB_ACCESS_TOKEN is set
  imgflip,    \* env.IMGFLIP_USERNAME and env.IMGFLIP_PASSWORD are set
  insights,   \* the Map of USER_INSIGHTS_CACHE
  comparisons,\* the Map of COMPARISON_CACHE
  objects,    \* the insights and comparison objects created so far, by identity
  req,        \* the calls of getUserInsights, compareUsers and POST, and their promises
  calls,      \* how many entry-point calls have been made
  profiles,   \* SpecCompare: the two insights records compareUsers has awaited
  comparison, \* SpecCompare: the ComparisonResult built from them, if any
  byteCounts, \* SpecLanguages: the byte count of each language of a graph response
  languageStats, \* SpecLanguages: what aggregateLanguageStats returned for them, if any
  dayCounts,  \* SpecStreak: the contribution count of each day of a calendar, in date order
  contributionStats, \* SpecStreak: what aggregateContributionStats returned for them, if any
  graphRepos  \* SpecLanguages: the repositories of the graph response, with their language edges

cacheVars == <<store, caller, lastSet, lastOp>>
pipeVars == <<token, imgflip, insights, comparisons, objects, req, calls>>
pureVars == <<profiles, comparison, byteCounts, languageStats, dayCounts, contributionStats,
             graphRepos>>
vars == <<now, nextRef, store, caller, lastSet, lastOp,
          token, imgflip, insights, comparisons, objects, req, calls,
          profiles, comparison, byteCounts, languageStats,
          dayCounts, contributionStats, graphRepos>>

----------------------------------------------------------------------------
(* Bounds                                                                  *)

MaxTicks == 3          \* the clock stops after this many steps
MaxRefs == 3           \* objects created in one behaviour of SpecCache
MaxCalls == 2          \* entry-point calls made in one behaviour of the pipeline
MaxRepos == 3          \* repositories on the page a listing answers with

----------------------------------------------------------------------------
(* TTLCache                                                                *)

DefaultTtlMs == 1000 * 60 * 5
TickMs == DefaultTtlMs \div 2

\* `undefined`: cached values are object identities 1, 2, ...
Undefined == 0

\* ttlMs?: <<>> when the argument is omitted, <<ms>> when it is given
NoTtl == <<>>
TtlArgs == {NoTtl, <<TickMs>>}

\* ttlMs ?? this.defaultTtlMs
EffectiveTtl(ttl) == IF ttl = NoTtl THEN DefaultTtlMs ELSE ttl[1]

\* mutant of Expired: an entry is dropped at its expiry instant already
ExpiredAtExpiry(entry, t) == entry.expiresAt <= t

\* entry.expiresAt < Date.now()
Expired(entry, t) == entry.expiresAt < t

\* Map.delete(key)
MapDelete(st, k) == [x \in DOMAIN st \ {k} |-> st[x]]

\* Map.set(key, entry)
MapSet(st, k, e) == [x \in DOMAIN st \cup {k} |-> IF x = k THEN e ELSE st[x]]

\* TTLCache.get: the value returned
CacheGet(st, k, t) ==
  IF k \notin DOMAIN st THEN Undefined
  ELSE IF Expired(st[k], t) THEN Undefined
  ELSE st[k].value

\* TTLCache.get: the store it leaves (an expired entry is deleted)
CacheGetStore(st, k, t) ==
  IF k \in DOMAIN st /\ Expired(st[k], t) THEN MapDelete(st, k) ELSE st

\* mutant of CacheSet: the ttl argument is ignored
CacheSetDefaultTtl(st, k, v, ttl, t) ==
  MapSet(st, k, [value |-> v, expiresAt |-> t + DefaultTtlMs])

\* mutant of CacheSet: an entry already in the store is kept
CacheSetIfAbsent(st, k, v, ttl, t) ==
  IF k \in DOMAIN st THEN st
  ELSE MapSet(st, k, [value |-> v, expiresAt |-> t + EffectiveTtl(ttl)])

\* TTLCache.set
CacheSet(st, k, v, ttl, t) ==
  MapSet(st, k, [value |-> v, expiresAt |-> t + EffectiveTtl(ttl)])

\* mutant of CacheClear: nothing is evicted
CacheClearNothing(st, k) == st

\* TTLCache.clear(key)
CacheClear(st, k) == MapDelete(st, k)

\* TTLCache.clear()
CacheClearAll(st) == [x \in {} |-> Undefined]

----------------------------------------------------------------------------
(* Handles: a string is a sequence of characters; "github.com" stands for  *)
(* that ten-character substring, "GitHub.com" for a spelling of it in      *)
(* another letter case                                                     *)

\* String.prototype.toLowerCase, per character
LowerChar(c) ==
  CASE c = "A" -> "a"
    [] c = "B" -> "b"
    [] c = "GitHub.com" -> "github.com"
    [] OTHER -> c

toLowerCase(s) == [i \in 1..Len(s) |-> LowerChar(s[i])]

RECURSIVE TrimStart(_)
TrimStart(s) == IF s # <<>> /\ Head(s) = " " THEN TrimStart(Tail(s)) ELSE s

RECURSIVE TrimEnd(_)
TrimEnd(s) ==
  IF s # <<>> /\ s[Len(s)] = " " THEN TrimEnd(SubSeq(s, 1, Len(s) - 1)) ELSE s

\* String.prototype.trim
trim(s) == TrimEnd(TrimStart(s))

\* the characters [^/?#] of the capture group
SegmentChar(c) == c \notin {"/", "?", "#"}

\* mutant of HostAt: the host is matched without the i flag
HostAtExact(s, i, ignoreCase) == s[i] = "github.com"

\* "github.com" as the pattern github\.com matches it, with or without the i flag
HostAt(s, i, ignoreCase) ==
  IF ignoreCase THEN LowerChar(s[i]) = "github.com" ELSE s[i] = "github.com"

\* the positions where /github\.com\/([^/?#]+)/ matches
MatchStarts(s, ignoreCase) ==
  {i \in 1..Len(s) :
     /\ i + 2 <= Len(s)
     /\ HostAt(s, i, ignoreCase)
     /\ s[i + 1] = "/"
     /\ SegmentChar(s[i + 2])}

Min(S) == CHOOSE x \in S : \A y \in S : x <= y

\* the end of the greedy run [^/?#]+ that starts at position j
RECURSIVE SegmentEnd(_, _)
SegmentEnd(s, j) ==
  IF j < Len(s) /\ SegmentChar(s[j + 1]) THEN SegmentEnd(s, j + 1) ELSE j

\* match[1] of the leftmost match
UrlSegment(s, ignoreCase) ==
  LET i == Min(MatchStarts(s, ignoreCase)) IN SubSeq(s, i + 2, SegmentEnd(s, i + 2))

\* replace(/^@/, "")
StripAt(s) == IF s # <<>> /\ Head(s) = "@" THEN Tail(s) ELSE s

\* mutant of SanitizeThrows: the input is tested before it is trimmed
SanitizeThrowsUntrimmed(input) == input = <<>>

\* sanitizeLogin throws: the trimmed input is empty
SanitizeThrows(input) == trim(input) = <<>>

\* sanitizeLogin, where it does not throw
sanitizeLogin(input) ==
  LET trimmed == trim(input) IN
  IF MatchStarts(trimmed, TRUE) # {} THEN UrlSegment(trimmed, TRUE)
  ELSE StripAt(trimmed)

\* normalizeHandle of the input schema
normalizeHandle(value) ==
  LET trimmed == toLowerCase(trim(value)) IN
  IF MatchStarts(trimmed, FALSE) # {} THEN UrlSegment(trimmed, FALSE)
  ELSE StripAt(trimmed)

\* the characters of /^[A-Za-z0-9\-@._:/?=]+$/
SchemaChar(c) == c \notin {" ", "#"}

\* comparisonInputSchema.parse succeeds
SchemaAccepts(userA, userB) ==
  /\ Len(userA) >= 1 /\ \A i \in 1..Len(userA) : SchemaChar(userA[i])
  /\ Len(userB) >= 1 /\ \A i \in 1..Len(userB) : SchemaChar(userB[i])
  /\ normalizeHandle(userA) # normalizeHandle(userB)

----------------------------------------------------------------------------
(* The insights record: what getUserInsights assembles from the responses  *)

\* an optional value: <<>> is null or undefined, <<v>> is v
None == <<>>
Some(v) == <<v>>

\* repo.language is null
NoLanguage == ""

\* reduce((sum, n) => sum + n, 0), summed by halves
RECURSIVE SumOf(_)
SumOf(ns) ==
  IF Len(ns) = 0 THEN 0
  ELSE IF Len(ns) = 1 THEN ns[1]
  ELSE LET mid == Len(ns) \div 2 IN
       SumOf(SubSeq(ns, 1, mid)) + SumOf(SubSeq(ns, mid + 1, Len(ns)))

RECURSIVE MaxOf(_)
MaxOf(ns) == IF ns = <<>> THEN 0
             ELSE IF Tail(ns) = <<>> THEN Head(ns)
             ELSE LET m == MaxOf(Tail(ns)) IN IF Head(ns) >= m THEN Head(ns) ELSE m

RECURSIVE Flatten(_)
Flatten(ss) == IF ss = <<>> THEN <<>> ELSE Head(ss) \o Flatten(Tail(ss))

\* Number(x.toFixed(2)) of x = num / den, in hundredths
Fixed2(num, den) == (num * 100 * 2 + den) \div (2 * den)

\* Array.prototype.sort by ascending keys[i]; the sort is stable
StableSort(seq, keys) ==
  LET key == <<>> \o keys
      rank == <<>> \o [i \in 1..Len(seq) |->
                 1 + Cardinality({j \in 1..Len(seq) :
                       key[j] < key[i] \/ (key[j] = key[i] /\ j < i)})]
  IN <<>> \o [p \in 1..Len(seq) |-> seq[CHOOSE i \in 1..Len(seq) : rank[i] = p]]

\* mutant of computeTotals: only the first page of repositories is summed
computeTotalsFirstPage(repos) ==
  LET first == SubSeq(repos, 1, IF Len(repos) < 100 THEN Len(repos) ELSE 100) IN
  [stars |-> SumOf([i \in 1..Len(first) |-> first[i].stargazers_count]),
   forks |-> SumOf([i \in 1..Len(first) |-> first[i].forks_count]),
   watchers |-> SumOf([i \in 1..Len(first) |-> first[i].watchers_count]),
   issues |-> SumOf([i \in 1..Len(first) |-> first[i].open_issues_count])]

\* computeTotals
computeTotals(repos) ==
  [stars |-> SumOf([i \in 1..Len(repos) |-> repos[i].stargazers_count]),
   forks |-> SumOf([i \in 1..Len(repos) |-> repos[i].forks_count]),
   watchers |-> SumOf([i \in 1..Len(repos) |-> repos[i].watchers_count]),
   issues |-> SumOf([i \in 1..Len(repos) |-> repos[i].open_issues_count])]

\* languageTotals.get(name) ?? {bytes: 0, repoCount: 0}, updated and set again;
\* the Map keeps its entries in the order the names were first set
Bump(totals, name, bytes, count) ==
  IF \E i \in 1..Len(totals) : totals[i].name = name
  THEN [i \in 1..Len(totals) |->
          IF totals[i].name = name
          THEN [totals[i] EXCEPT !.bytes = @ + bytes, !.repoCount = @ + count]
          ELSE totals[i]]
  ELSE Append(totals, [name |-> name, bytes |-> bytes, repoCount |-> count])

\* mutant of FoldEdges: repoCount counts every edge
RECURSIVE FoldEdgesCountsEdges(_, _, _)
FoldEdgesCountsEdges(totals, edges, seenLanguages) ==
  IF edges = <<>> THEN totals
  ELSE LET edge == Head(edges) IN
       FoldEdgesCountsEdges(Bump(totals, edge.name, edge.size, 1),
                            Tail(edges), seenLanguages \cup {edge.name})

\* aggregateLanguageStats: the loop over the language edges of one graph repository
RECURSIVE FoldEdges(_, _, _)
FoldEdges(totals, edges, seenLanguages) ==
  IF edges = <<>> THEN totals
  ELSE LET edge == Head(edges) IN
       FoldEdges(Bump(totals, edge.name, edge.size,
                      IF edge.name \in seenLanguages THEN 0 ELSE 1),
                 Tail(edges), seenLanguages \cup {edge.name})

\* aggregateLanguageStats: the loop over the graph repositories
RECURSIVE FoldGraphRepos(_, _)
FoldGraphRepos(totals, gqlRepos) ==
  IF gqlRepos = <<>> THEN totals
  ELSE FoldGraphRepos(FoldEdges(totals, Head(gqlRepos).languages, {}), Tail(gqlRepos))

\* aggregateLanguageStats: the loop over the REST repositories, run over the
\* first half of the list and then, from that result, over the second half
RECURSIVE FoldRestRepos(_, _)
FoldRestRepos(totals, restRepos) ==
  IF Len(restRepos) = 0 THEN totals
  ELSE IF Len(restRepos) = 1
  THEN (IF restRepos[1].language = NoLanguage THEN totals
        ELSE Bump(totals, restRepos[1].language, 1, 1))
  ELSE LET mid == Len(restRepos) \div 2
           half == FoldRestRepos(totals, SubSeq(restRepos, 1, mid))
       IN IF Len(half) = 0
          THEN FoldRestRepos(<<>>, SubSeq(restRepos, mid + 1, Len(restRepos)))
          ELSE FoldRestRepos(half, SubSeq(restRepos, mid + 1, Len(restRepos)))

\* mutant of LanguageTotals: without graph repositories there are no languages
LanguageTotalsGraphOnly(restRepos, gqlRepos) ==
  IF gqlRepos # None /\ gqlRepos[1] # <<>>
  THEN FoldGraphRepos(<<>>, gqlRepos[1])
  ELSE <<>>

\* aggregateLanguageStats: the Map it fills, from the graph repositories if
\* there are any and from the REST repositories otherwise
LanguageTotals(restRepos, gqlRepos) ==
  IF gqlRepos # None /\ gqlRepos[1] # <<>>
  THEN FoldGraphRepos(<<>>, gqlRepos[1])
  ELSE FoldRestRepos(<<>>, restRepos)

\* aggregateLanguageStats; percentage is in hundredths
aggregateLanguageStats(restRepos, gqlRepos) ==
  LET languageTotals == LanguageTotals(restRepos, gqlRepos)
      totalBytes == SumOf([i \in 1..Len(languageTotals) |-> languageTotals[i].bytes])
      stats == [i \in 1..Len(languageTotals) |->
                  [name |-> languageTotals[i].name,
                   bytes |-> languageTotals[i].bytes,
                   repoCount |-> languageTotals[i].repoCount,
                   percentage |-> IF totalBytes # 0
                                  THEN Fixed2(languageTotals[i].bytes * 100, totalBytes)
                                  ELSE 0]]
      sorted == StableSort(stats, [i \in 1..Len(stats) |-> 0 - stats[i].bytes])
  IN SubSeq(sorted, 1, IF Len(sorted) < 8 THEN Len(sorted) ELSE 8)

\* mutant of Streak: a day without contributions resets longestStreak as well
RECURSIVE StreakResetsLongest(_, _, _)
StreakResetsLongest(days, currentStreak, longestStreak) ==
  IF days = <<>> THEN [current |-> currentStreak, longest |-> longestStreak]
  ELSE IF Head(days).contributionCount > 0
  THEN StreakResetsLongest(Tail(days), currentStreak + 1,
              IF longestStreak >= currentStreak + 1 THEN longestStreak
              ELSE currentStreak + 1)
  ELSE StreakResetsLongest(Tail(days), 0, 0)

\* aggregateContributionStats: the loop over the days in date order
RECURSIVE Streak(_, _, _)
Streak(days, currentStreak, longestStreak) ==
  IF days = <<>> THEN [current |-> currentStreak, longest |-> longestStreak]
  ELSE IF Head(days).contributionCount > 0
  THEN Streak(Tail(days), currentStreak + 1,
              IF longestStreak >= currentStreak + 1 THEN longestStreak
              ELSE currentStreak + 1)
  ELSE Streak(Tail(days), 0, longestStreak)

\* aggregateContributionStats; weeklyAverage is in hundredths
aggregateContributionStats(data) ==
  IF data = None THEN None
  ELSE
    LET weeks == data[1].weeks
        weeklySeries == [w \in 1..Len(weeks) |->
          [weekStart |-> weeks[w].firstDay,
           total |-> SumOf([d \in 1..Len(weeks[w].contributionDays) |->
                              weeks[w].contributionDays[d].contributionCount])]]
        weeklyTotals == [w \in 1..Len(weeks) |-> weeklySeries[w].total]
        allDays == Flatten([w \in 1..Len(weeks) |-> weeks[w].contributionDays])
        days == StableSort(allDays, [d \in 1..Len(allDays) |-> allDays[d].date])
    IN Some([total |-> data[1].totalContributions,
             lastYear |-> SumOf(weeklyTotals),
             weeklyAverage |-> IF Len(weeklyTotals) = 0 THEN 0
                               ELSE Fixed2(SumOf(weeklyTotals), Len(weeklyTotals)),
             weeklyMax |-> IF Len(weeklyTotals) # 0 THEN MaxOf(weeklyTotals) ELSE 0,
             weeklySeries |-> weeklySeries,
             streak |-> Streak(days, 0, 0),
             pullRequests |-> data[1].totalPullRequestContributions])

\* formatRepository
formatRepository(repo) ==
  [name |-> repo.name, stargazers |-> repo.stargazers_count,
   forks |-> repo.forks_count, primaryLanguage |-> repo.language,
   updatedAt |-> repo.updated_at, createdAt |-> repo.created_at,
   isArchived |-> repo.archived]

\* sorted[0] ? formatRepository(sorted[0]) : undefined
FirstFormatted(sorted) ==
  IF sorted = <<>> THEN None ELSE Some(formatRepository(sorted[1]))

\* deriveHighlights: mapPinned
mapPinned(item) ==
  [name |-> item.name, stargazers |-> item.stargazerCount, forks |-> 0,
   primaryLanguage |-> item.primaryLanguage, updatedAt |-> item.updatedAt,
   createdAt |-> item.createdAt, isArchived |-> item.isArchived]

\* mutant of deriveHighlights: among tied repositories the last in list order wins
deriveHighlightsLastTied(repos, pinned) ==
  LET idx == 1..Len(repos)
      rev == [i \in idx |-> repos[Len(repos) + 1 - i]]
  IN
  [mostStarred |->
     FirstFormatted(StableSort(rev, [i \in idx |-> 0 - rev[i].stargazers_count])),
   mostForked |->
     FirstFormatted(StableSort(rev, [i \in idx |-> 0 - rev[i].forks_count])),
   oldestRepo |->
     FirstFormatted(StableSort(rev, [i \in idx |-> rev[i].created_at])),
   newestRepo |->
     FirstFormatted(StableSort(rev, [i \in idx |-> 0 - rev[i].updated_at])),
   pinned |-> IF pinned = None THEN None
              ELSE Some([i \in 1..Len(pinned[1]) |-> mapPinned(pinned[1][i])])]

\* deriveHighlights
deriveHighlights(repos, pinned) ==
  LET idx == 1..Len(repos) IN
  [mostStarred |->
     FirstFormatted(StableSort(repos, [i \in idx |-> 0 - repos[i].stargazers_count])),
   mostForked |->
     FirstFormatted(StableSort(repos, [i \in idx |-> 0 - repos[i].forks_count])),
   oldestRepo |->
     FirstFormatted(StableSort(repos, [i \in idx |-> repos[i].created_at])),
   newestRepo |->
     FirstFormatted(StableSort(repos, [i \in idx |-> 0 - repos[i].updated_at])),
   pinned |-> IF pinned = None THEN None
              ELSE Some([i \in 1..Len(pinned[1]) |-> mapPinned(pinned[1][i])])]

\* getUserInsights: the record built from [user, repos, gql]; gql is None when
\* fetchGraphqlAnalytics resolved to null
BuildInsights(login, repos, gql) ==
  [type |-> "insights", login |-> login, graph |-> (gql # None),
   totals |-> computeTotals(repos),
   languages |-> aggregateLanguageStats(repos,
                   IF gql = None THEN None ELSE Some(gql[1].repositories)),
   contributions |-> aggregateContributionStats(
                   IF gql = None THEN None ELSE gql[1].contributionsCollection),
   highlights |-> deriveHighlights(repos,
                   IF gql = None THEN None ELSE Some(gql[1].pinnedItems)),
   repositories |-> [i \in 1..Len(repos) |-> formatRepository(repos[i])]]

\* repositories a listing answers with; timestamps are numbered by their order
RepoSamples ==
  {[name |-> "x", stargazers_count |-> 2, forks_count |-> 0, watchers_count |-> 2,
    open_issues_count |-> 1, language |-> "TypeScript", created_at |-> 1,
    updated_at |-> 5, archived |-> FALSE],
   [name |-> "y", stargazers_count |-> 2, forks_count |-> 3, watchers_count |-> 1,
    open_issues_count |-> 0, language |-> NoLanguage, created_at |-> 2,
    updated_at |-> 4, archived |-> FALSE],
   [name |-> "z", stargazers_count |-> 0, forks_count |-> 3, watchers_count |-> 0,
    open_issues_count |-> 2, language |-> "TypeScript", created_at |-> 1,
    updated_at |-> 5, archived |-> TRUE],
   [name |-> "w", stargazers_count |-> 1, forks_count |-> 1, watchers_count |-> 1,
    open_issues_count |-> 0, language |-> "Go", created_at |-> 3,
    updated_at |-> 6, archived |-> FALSE]}

\* the pages of at most MaxRepos distinct repositories
RepoLists ==
  UNION {{l \in [1..n -> RepoSamples] : \A i, j \in 1..n : l[i] = l[j] => i = j}
           : n \in 0..MaxRepos}

\* the user node a graph response carries
GraphSamples ==
  {[repositories |->
      <<[languages |-> <<[name |-> "Go", size |-> 30],
                         [name |-> "TypeScript", size |-> 10],
                         [name |-> "Go", size |-> 5]>>],
        [languages |-> <<[name |-> "Rust", size |-> 35]>>]>>,
    contributionsCollection |->
      Some([totalContributions |-> 4, totalPullRequestContributions |-> 1,
            weeks |-> <<[firstDay |-> 1, contributionDays |->
                           <<[date |-> 1, contributionCount |-> 1],
                             [date |-> 2, contributionCount |-> 0]>>],
                        [firstDay |-> 3, contributionDays |->
                           <<[date |-> 3, contributionCount |-> 2],
                             [date |-> 4, contributionCount |-> 1]>>]>>]),
    pinnedItems |-> <<[name |-> "x", stargazerCount |-> 2,
                       primaryLanguage |-> "TypeScript", updatedAt |-> 5,
                       createdAt |-> 1, isArchived |-> FALSE]>>],
   [repositories |-> <<>>,
    contributionsCollection |->
      Some([totalContributions |-> 0, totalPullRequestContributions |-> 0,
            weeks |-> <<>>]),
    pinnedItems |-> <<>>]}

\* the page and the graph user of the behaviours that do not vary the data
OnePage == <<CHOOSE repo \in RepoSamples : repo.name = "x">>
OneGraph == CHOOSE g \in GraphSamples : g.repositories = <<>>

----------------------------------------------------------------------------
(* The comparison: buildComparisonMetrics, selectHeroMetric, buildSummary, *)
(* deriveMemePrompt. Metric values and diffs are in thousandths.           *)

MEME_TEMPLATES ==
  [dominant |-> <<"61579", "188390779", "252600902">>,
   close |-> <<"129242436", "222403160", "112126428">>,
   upset |-> <<"181913649", "247375501", "129365222">>,
   tie |-> <<"438680", "217743513", "4087833">>]

\* 0.01, in thousandths
SAFE_METRIC_DIFF_THRESHOLD == 10

\* Math.random() takes the values 0, 1/RandomGrain, ..., (RandomGrain - 1)/RandomGrain
RandomGrain == 4
Randoms == 0..(RandomGrain - 1)

\* Math.abs
Abs(x) == IF x < 0 THEN 0 - x ELSE x

\* an integer and a number of hundredths, in thousandths
Whole(n) == n * 1000
Centi(h) == h * 10

\* Number(x.toFixed(2)) of x in thousandths: the nearest hundredth, and of two
\* nearest ones the larger in magnitude
toFixed2(x) ==
  LET n == (Abs(x) + 5) \div 10 IN
  IF x < 0 THEN 0 - n * 10 ELSE n * 10

\* pickRandom: items[Math.floor(Math.random() * items.length)]
pickRandom(items, random) == items[((random * Len(items)) \div RandomGrain) + 1]

\* mutant of buildMetric: a diff of exactly the threshold is not "equal"
buildMetricStrict(id, label, userA, userB) ==
  LET diff == toFixed2(userA - userB) IN
  [id |-> id, label |-> label, userA |-> userA, userB |-> userB, diff |-> diff,
   direction |-> IF Abs(diff) < SAFE_METRIC_DIFF_THRESHOLD THEN "equal"
                 ELSE IF diff > 0 THEN "up" ELSE "down"]

\* buildMetric (the description, a fixed text, is left out)
buildMetric(id, label, userA, userB) ==
  LET diff == toFixed2(userA - userB)
      direction == IF Abs(diff) <= SAFE_METRIC_DIFF_THRESHOLD THEN "equal"
                   ELSE IF diff > 0 THEN "up" ELSE "down"
  IN [id |-> id, label |-> label, userA |-> userA, userB |-> userB,
      diff |-> diff, direction |-> direction]

\* mutant of buildComparisonMetrics: the pull request metric is left out when
\* user A has no contribution statistics
buildComparisonMetricsPartial(userA, userB) ==
  LET aContrib == userA.contributions
      bContrib == userB.contributions
      aTopLanguage == IF userA.languages = <<>> THEN None ELSE Some(userA.languages[1])
      bTopLanguage == IF userB.languages = <<>> THEN None ELSE Some(userB.languages[1])
  IN
  <<buildMetric("repositories", "Public Repositories",
                Whole(userA.publicRepos), Whole(userB.publicRepos)),
    buildMetric("stars", "Repository Stars",
                Whole(userA.totals.stars), Whole(userB.totals.stars)),
    buildMetric("followers", "Followers",
                Whole(userA.followers), Whole(userB.followers)),
    buildMetric("weekly_contributions", "Average Weekly Contributions",
                IF aContrib = None THEN 0 ELSE Centi(aContrib[1].weeklyAverage),
                IF bContrib = None THEN 0 ELSE Centi(bContrib[1].weeklyAverage)),
    buildMetric("yearly_contributions", "Yearly Contributions",
                IF aContrib = None THEN 0 ELSE Whole(aContrib[1].lastYear),
                IF bContrib = None THEN 0 ELSE Whole(bContrib[1].lastYear)),
    buildMetric("top_language_share", "Top Language Share (%)",
                IF aTopLanguage = None THEN 0 ELSE Centi(aTopLanguage[1].percentage),
                IF bTopLanguage = None THEN 0 ELSE Centi(bTopLanguage[1].percentage))>>
  \o (IF aContrib = None THEN <<>>
      ELSE <<buildMetric("pull_requests", "Pull Request Contributions",
                         Whole(aContrib[1].pullRequests),
                         IF bContrib = None THEN 0 ELSE Whole(bContrib[1].pullRequests))>>)

\* buildComparisonMetrics: the seven metrics, in this order
buildComparisonMetrics(userA, userB) ==
  LET aContrib == userA.contributions
      bContrib == userB.contributions
      aTopLanguage == IF userA.languages = <<>> THEN None ELSE Some(userA.languages[1])
      bTopLanguage == IF userB.languages = <<>> THEN None ELSE Some(userB.languages[1])
  IN
  <<buildMetric("repositories", "Public Repositories",
                Whole(userA.publicRepos), Whole(userB.publicRepos)),
    buildMetric("stars", "Repository Stars",
                Whole(userA.totals.stars), Whole(userB.totals.stars)),
    buildMetric("followers", "Followers",
                Whole(userA.followers), Whole(userB.followers)),
    buildMetric("weekly_contributions", "Average Weekly Contributions",
                IF aContrib = None THEN 0 ELSE Centi(aContrib[1].weeklyAverage),
                IF bContrib = None THEN 0 ELSE Centi(bContrib[1].weeklyAverage)),
    buildMetric("yearly_contributions", "Yearly Contributions",
                IF aContrib = None THEN 0 ELSE Whole(aContrib[1].lastYear),
                IF bContrib = None THEN 0 ELSE Whole(bContrib[1].lastYear)),
    buildMetric("top_language_share", "Top Language Share (%)",
                IF aTopLanguage = None THEN 0 ELSE Centi(aTopLanguage[1].percentage),
                IF bTopLanguage = None THEN 0 ELSE Centi(bTopLanguage[1].percentage)),
    buildMetric("pull_requests", "Pull Request Contributions",
                IF aContrib = None THEN 0 ELSE Whole(aContrib[1].pullRequests),
                IF bContrib = None THEN 0 ELSE Whole(bContrib[1].pullRequests))>>

\* metrics.filter((metric) => metric.direction !== "equal")
Unequal(metric) == metric.direction # "equal"

\* mutant of selectHeroMetric: the sort is by diff, not by its magnitude
selectHeroMetricSigned(metrics) ==
  LET kept == SelectSeq(metrics, Unequal)
      sorted == StableSort(kept, [i \in 1..Len(kept) |-> 0 - kept[i].diff])
  IN IF sorted = <<>> THEN None ELSE Some(sorted[1])

\* mutant of selectHeroMetric: of the metrics with the same magnitude the sort
\* puts the later first
selectHeroMetricLast(metrics) ==
  LET kept == SelectSeq(metrics, Unequal)
      sorted == StableSort(kept, [i \in 1..Len(kept) |->
                                   0 - (Abs(kept[i].diff) * 10 + i)])
  IN IF sorted = <<>> THEN None ELSE Some(sorted[1])

\* selectHeroMetric: null is None
selectHeroMetric(metrics) ==
  LET kept == SelectSeq(metrics, Unequal)
      sorted == StableSort(kept, [i \in 1..Len(kept) |-> 0 - Abs(kept[i].diff)])
  IN IF sorted = <<>> THEN None ELSE Some(sorted[1])

\* label.toLowerCase() of the seven labels
LabelLower(label) ==
  CASE label = "Public Repositories" -> "public repositories"
    [] label = "Repository Stars" -> "repository stars"
    [] label = "Followers" -> "followers"
    [] label = "Average Weekly Contributions" -> "average weekly contributions"
    [] label = "Yearly Contributions" -> "yearly contributions"
    [] label = "Top Language Share (%)" -> "top language share (%)"
    [] label = "Pull Request Contributions" -> "pull request contributions"

\* buildSummary: the sentence, as the sequence of the parts of its template
buildSummary(result) ==
  IF result.heroMetric = None
  THEN <<result.userA.login, " and ", result.userB.login,
         " are neck and neck across all tracked metrics.">>
  ELSE
    LET heroMetric == result.heroMetric[1]
        winner == IF heroMetric.diff >= 0 THEN result.userA.login ELSE result.userB.login
        loser == IF heroMetric.diff >= 0 THEN result.userB.login ELSE result.userA.login
    IN <<winner, " outshines ", loser, " on ", LabelLower(heroMetric.label), " by ",
         Abs(heroMetric.diff), ". Check the charts for the full story.">>

\* mutant of Scenario: a gap of exactly 100 is "dominant", one of exactly 10 "close"
ScenarioInclusive(gap) ==
  IF gap >= Whole(100) THEN "dominant"
  ELSE IF gap <= Whole(10) THEN "close"
  ELSE "upset"

\* deriveMemePrompt: the band of a gap
Scenario(gap) ==
  IF gap > Whole(100) THEN "dominant"
  ELSE IF gap < Whole(10) THEN "close"
  ELSE "upset"

\* the characters of a login as one string
RECURSIVE Join(_)
Join(seq) == IF seq = <<>> THEN "" ELSE Head(seq) \o Join(Tail(seq))

\* compactNumber.format(a) of a >= 0 in thousandths (notation "compact",
\* maximumFractionDigits 1): the number in tenths of the first unit in which it
\* rounds below 1000
RECURSIVE Compact(_, _)
Compact(a, units) ==
  LET tenths == (a + 50) \div 100 IN
  IF tenths < 10000 \/ Len(units) = 1
  THEN [tenths |-> tenths, unit |-> Head(units)]
  ELSE Compact(a \div 1000, Tail(units))

\* formatStat (a value of the model is always finite)
formatStat(value) ==
  LET c == Compact(Abs(value), <<"", "K", "M", "B", "T">>) IN
  ToString(c.tenths \div 10)
    \o (IF c.tenths % 10 = 0 THEN "" ELSE "." \o ToString(c.tenths % 10))
    \o c.unit

\* deriveMemePrompt: topLanguageWinner
topLanguageWinner(user) ==
  IF user.languages = <<>> THEN "mystery stack" ELSE user.languages[1].name

\* deriveMemePrompt: topTextOptions and bottomTextOptions of a tie
TieTexts(userA, userB) ==
  LET duo == Join(userA.login) \o " & " \o Join(userB.login)
      languages == topLanguageWinner(userA) \o " vs " \o topLanguageWinner(userB)
  IN [top |-> <<duo \o " in the ultimate merge conflict",
                duo \o " trying to out-commit each other",
                duo \o " same vibes, different clones">>,
      bottom |-> <<"Result: perfect tie. Maybe pair on " \o languages \o "?",
                   "No winner. Just two legends pushing main together.",
                   "It's a dead heat. Time for a duo livestream in " \o languages \o ".">>]

\* deriveMemePrompt: secondaryMetric, secondaryLeader and secondaryLine
SecondaryLine(result, winner) ==
  LET heroMetric == result.heroMetric[1]
      others == SelectSeq(result.metrics, LAMBDA metric : metric.id # heroMetric.id)
      sorted == StableSort(others, [i \in 1..Len(others) |-> 0 - Abs(others[i].diff)])
  IN
  IF sorted = <<>> THEN Join(winner.login) \o " is on a roll."
  ELSE
    LET secondaryMetric == sorted[1]
        secondaryLeader == IF secondaryMetric.diff >= 0 THEN result.userA ELSE result.userB
        larger == IF secondaryMetric.userA >= secondaryMetric.userB
                  THEN secondaryMetric.userA ELSE secondaryMetric.userB
        smaller == IF secondaryMetric.userA <= secondaryMetric.userB
                   THEN secondaryMetric.userA ELSE secondaryMetric.userB
    IN Join(secondaryLeader.login) \o " owns " \o LabelLower(secondaryMetric.label)
         \o " (" \o formatStat(larger) \o " vs " \o formatStat(smaller) \o ")."

\* deriveMemePrompt: quips, with the logins of winner and loser
Quips(winner, loser, metricName, formattedWinnerValue, formattedLoserValue, winnerLanguage, loserLanguage, secondaryLine) ==
  [dominant |->
     [top |-> <<winner \o " farming " \o metricName \o " like it's Hacktoberfest",
                "Meanwhile " \o winner \o " speedruns " \o metricName,
                winner \o " hitting " \o formattedWinnerValue \o " " \o metricName
                  \o " before standup">>,
      bottom |-> <<loser \o " stuck at " \o formattedLoserValue \o " and refactoring "
                     \o loserLanguage \o " code.",
                   loser \o " googling \"how to catch up " \o formattedWinnerValue
                     \o "-" \o formattedLoserValue \o "\"",
                   loser \o " whispering to " \o loserLanguage \o ": \"We need more "
                     \o metricName \o "...\"">>],
   close |->
     [top |-> <<winner \o " barely edges " \o loser \o " on " \o metricName,
                winner \o " vs " \o loser \o ": photo-finish on " \o metricName,
                winner \o " sneaks ahead with " \o formattedWinnerValue \o " "
                  \o metricName>>,
      bottom |-> <<loser \o " sitting at " \o formattedLoserValue
                     \o " - rematch after lunch?",
                   "Scoreboard: " \o winner \o " " \o formattedWinnerValue \o " vs "
                     \o loser \o " " \o formattedLoserValue \o ".",
                   loser \o " sharpening " \o loserLanguage
                     \o " skills for the next push.">>],
   upset |->
     [top |-> <<winner \o " drops an upset in " \o metricName,
                "Plot twist: " \o winner \o " takes " \o metricName,
                winner \o " whispers \"hold my keyboard\"">>,
      bottom |-> <<loser \o " stunned at " \o formattedLoserValue \o ". "
                     \o secondaryLine,
                   loser \o " was not ready for the " \o winnerLanguage \o " flex.",
                   loser \o " writing a retro on how this happened.">>]]

\* deriveMemePrompt: the texts of the band scenario, userA being the winner or not
QuipsFor(result, scenario, aWins) ==
  LET heroMetric == result.heroMetric[1]
      winner == IF aWins THEN result.userA ELSE result.userB
      loser == IF aWins THEN result.userB ELSE result.userA
      winnerValue == IF aWins THEN heroMetric.userA ELSE heroMetric.userB
      loserValue == IF aWins THEN heroMetric.userB ELSE heroMetric.userA
  IN Quips(Join(winner.login), Join(loser.login), LabelLower(heroMetric.label),
           formatStat(winnerValue), formatStat(loserValue),
           topLanguageWinner(winner), topLanguageWinner(loser),
           SecondaryLine(result, winner))[scenario]

\* mutant of deriveMemePrompt: without a hero metric the template is an "upset" one
deriveMemePromptNoTie(result, random) ==
  Some([templateId |-> pickRandom(MEME_TEMPLATES.upset, random[1]),
        topText |-> "", bottomText |-> ""])

\* mutant of deriveMemePrompt: the winner is user A also when the hero diff is negative
deriveMemePromptAWins(result, random) ==
  IF result.heroMetric = None
  THEN Some([templateId |-> pickRandom(MEME_TEMPLATES.tie, random[1]),
             topText |-> pickRandom(TieTexts(result.userA, result.userB).top, random[2]),
             bottomText |-> pickRandom(TieTexts(result.userA, result.userB).bottom,
                                       random[3])])
  ELSE
    LET scenario == Scenario(Abs(result.heroMetric[1].diff))
        choices == QuipsFor(result, scenario, TRUE)
    IN Some([templateId |-> pickRandom(MEME_TEMPLATES[scenario], random[1]),
             topText |-> pickRandom(choices.top, random[2]),
             bottomText |-> pickRandom(choices.bottom, random[3])])

\* deriveMemePrompt: random holds what Math.random() returns for templateId, for
\* topText and for bottomText, in this order
deriveMemePrompt(result, random) ==
  IF result.heroMetric = None
  THEN Some([templateId |-> pickRandom(MEME_TEMPLATES.tie, random[1]),
             topText |-> pickRandom(TieTexts(result.userA, result.userB).top, random[2]),
             bottomText |-> pickRandom(TieTexts(result.userA, result.userB).bottom,
                                       random[3])])
  ELSE
    LET heroMetric == result.heroMetric[1]
        gap == Abs(heroMetric.diff)
        scenario == Scenario(gap)
        choices == QuipsFor(result, scenario, heroMetric.diff >= 0)
    IN Some([templateId |-> pickRandom(MEME_TEMPLATES[scenario], random[1]),
             topText |-> pickRandom(choices.top, random[2]),
             bottomText |-> pickRandom(choices.bottom, random[3])])

\* compareUsers: what the factory builds once both getUserInsights have resolved
BuildComparison(userA, userB, random) ==
  LET metrics == buildComparisonMetrics(userA, userB)
      heroMetric == selectHeroMetric(metrics)
      built == [userA |-> userA, userB |-> userB, metrics |-> metrics,
                heroMetric |-> heroMetric, summary |-> <<>>, memePrompt |-> None]
      summed == [built EXCEPT !.summary = buildSummary(built)]
  IN [summed EXCEPT !.memePrompt = deriveMemePrompt(summed, random)]

----------------------------------------------------------------------------
(* SpecCache: callers drive one TTLCache instance directly                 *)

Keys == {"k1", "k2"}
Callers == {"p", "q"}

NoSet == [has |-> FALSE, value |-> Undefined, at |-> 0, ttl |-> NoTtl, via |-> "set"]
IdleCall == [pc |-> "idle", key |-> "k1", ttl |-> NoTtl]
NoOp ==
  [op |-> "other", key |-> "k1", value |-> Undefined, invoked |-> FALSE, racing |-> FALSE]

\* history: the set() recorded in h is within its TTL window at time t
InWindow(h, t) == h.has /\ t <= h.at + EffectiveTtl(h.ttl)

\* another caller's factory for key k is in flight
InFlight(p, k) == \E q \in Callers \ {p} : caller[q].pc = "factory" /\ caller[q].key = k

Sides == {"A", "B"}
Reqs == {"r1", "r2"}

\* one getUserInsights call: its promise (st), its three upstream calls, its outcome
OffSide ==
  [st |-> "off", login |-> <<>>, user |-> "off", repos |-> "off", page |-> 0,
   gql |-> "off", val |-> Undefined, errType |-> "", errStatus |-> 0, cause |-> "",
   data |-> <<>>, gqlUser |-> None, got |-> <<>>]

\* one call of an entry point: pc is the caller, cmp the promise of compareUsers
IdleReq ==
  [kind |-> "idle", pc |-> "idle", a |-> <<>>, b |-> <<>>, force |-> FALSE,
   cmp |-> "off", cmpKey |-> <<>>, side |-> [s \in Sides |-> OffSide],
   ret |-> Undefined, errType |-> "", errStatus |-> 0, errSide |-> "",
   http |-> 0, meme |-> "none", startRef |-> 0, n |-> 0]

InitCache ==
  /\ now = 0
  /\ nextRef = 1
  /\ token = FALSE
  /\ imgflip = FALSE
  /\ insights = [x \in {} |-> Undefined]
  /\ comparisons = [x \in {} |-> Undefined]
  /\ objects = <<>>
  /\ req = [r \in Reqs |-> IdleReq]
  /\ calls = 0
  /\ store = [x \in {} |-> Undefined]
  /\ caller = [p \in Callers |-> IdleCall]
  /\ lastSet = [k \in Keys |-> NoSet]
  /\ lastOp = NoOp
  /\ profiles = <<>>
  /\ comparison = <<>>
  /\ byteCounts = <<>>
  /\ languageStats = <<>>
  /\ dayCounts = <<>>
  /\ contributionStats = <<>>
  /\ graphRepos = <<>>

\* the clock advances
TickCache ==
  /\ now < MaxTicks * TickMs
  /\ now' = now + TickMs
  /\ lastOp' = NoOp
  /\ UNCHANGED <<nextRef, store, caller, lastSet, pipeVars, pureVars>>

\* cache.get(k)
GetOp(k) ==
  /\ store' = CacheGetStore(store, k, now)
  /\ lastOp' = [NoOp EXCEPT !.op = "get", !.key = k, !.value = CacheGet(store, k, now)]
  /\ UNCHANGED <<now, nextRef, caller, lastSet, pipeVars, pureVars>>

\* cache.set(k, v, ttl) with a new object v
SetOp(k, ttl) ==
  /\ nextRef <= MaxRefs
  /\ store' = CacheSet(store, k, nextRef, ttl, now)
  /\ lastSet' = [lastSet EXCEPT ![k] =
       [has |-> TRUE, value |-> nextRef, at |-> now, ttl |-> ttl, via |-> "set"]]
  /\ lastOp' = NoOp
  /\ nextRef' = nextRef + 1
  /\ UNCHANGED <<now, caller, pipeVars, pureVars>>

\* cache.clear(k)
ClearOp(k) ==
  /\ store' = CacheClear(store, k)
  /\ lastSet' = [lastSet EXCEPT ![k] = NoSet]
  /\ lastOp' = NoOp
  /\ UNCHANGED <<now, nextRef, caller, pipeVars, pureVars>>

\* cache.clear()
ClearAllOp ==
  /\ store' = CacheClearAll(store)
  /\ lastSet' = [k \in Keys |-> NoSet]
  /\ lastOp' = NoOp
  /\ UNCHANGED <<now, nextRef, caller, pipeVars, pureVars>>

\* mutant of RememberStart: a lookup joins a factory already in flight for the key
RememberStartJoin(p, k, ttl) ==
  /\ caller[p].pc = "idle"
  /\ LET cached == CacheGet(store, k, now)
         call == cached = Undefined /\ ~InFlight(p, k) IN
     /\ store' = CacheGetStore(store, k, now)
     /\ caller' = [caller EXCEPT ![p] =
          IF ~call THEN IdleCall ELSE [pc |-> "factory", key |-> k, ttl |-> ttl]]
     /\ lastOp' = [op |-> "remember", key |-> k, value |-> cached,
                   invoked |-> call, racing |-> InFlight(p, k)]
  /\ UNCHANGED <<now, nextRef, lastSet, pipeVars, pureVars>>

\* remember(k, factory, ttl) up to its await: a hit returns, a miss calls factory
RememberStart(p, k, ttl) ==
  /\ caller[p].pc = "idle"
  /\ LET cached == CacheGet(store, k, now) IN
     /\ store' = CacheGetStore(store, k, now)
     /\ caller' = [caller EXCEPT ![p] =
          IF cached # Undefined THEN IdleCall
          ELSE [pc |-> "factory", key |-> k, ttl |-> ttl]]
     /\ lastOp' = [op |-> "remember", key |-> k, value |-> cached,
                   invoked |-> (cached = Undefined), racing |-> InFlight(p, k)]
  /\ UNCHANGED <<now, nextRef, lastSet, pipeVars, pureVars>>

\* the factory's promise resolves with a new object: set, then return it
FactoryResolve(p) ==
  /\ caller[p].pc = "factory"
  /\ nextRef <= MaxRefs
  /\ LET k == caller[p].key IN
     /\ store' = CacheSet(store, k, nextRef, caller[p].ttl, now)
     /\ lastSet' = [lastSet EXCEPT ![k] =
          [has |-> TRUE, value |-> nextRef, at |-> now, ttl |-> caller[p].ttl,
           via |-> "remember"]]
     /\ lastOp' = [NoOp EXCEPT !.op = "stored", !.key = k, !.value = nextRef]
  /\ caller' = [caller EXCEPT ![p] = IdleCall]
  /\ nextRef' = nextRef + 1
  /\ UNCHANGED <<now, pipeVars, pureVars>>

\* the factory's promise rejects: remember rejects and stores nothing
FactoryReject(p) ==
  /\ caller[p].pc = "factory"
  /\ caller' = [caller EXCEPT ![p] = IdleCall]
  /\ lastOp' = NoOp
  /\ UNCHANGED <<now, nextRef, store, lastSet, pipeVars, pureVars>>

NextCache ==
  \/ TickCache
  \/ \E k \in Keys : GetOp(k)
  \/ \E k \in Keys, ttl \in TtlArgs : SetOp(k, ttl)
  \/ \E k \in Keys : ClearOp(k)
  \/ ClearAllOp
  \/ \E p \in Callers, k \in Keys, ttl \in TtlArgs : RememberStart(p, k, ttl)
  \/ \E p \in Callers : FactoryResolve(p)
  \/ \E p \in Callers : FactoryReject(p)

SpecCache == InitCache /\ [][NextCache]_vars

----------------------------------------------------------------------------
(* The pipeline: getUserInsights, compareUsers, generateMeme, POST         *)

\* the inputs callers pass: a handle, a handle in upper case, blanks, a lone @
RawInputs == {<<"a">>, <<"B">>, <<" ">>, <<"@">>}

\* the pairs compareUsers and POST are called with
RawPairs ==
  {<<<<"a">>, <<"B">>>>, <<<<"B">>, <<"a">>>>, <<<<"a">>, <<" ">>>>,
   <<<<" ">>, <<"B">>>>, <<<<"@">>, <<"a">>>>}

\* non-success statuses of the REST API, and of the graph API (200 with errors)
RestFailures == {404, 500}
GraphFailures == {200, 500}

\* mutant of ComparisonKey: the key does not depend on the order of the two handles
ComparisonKeyUnordered(loginA, loginB) ==
  LET pair == {toLowerCase(loginA), toLowerCase(loginB)}
      first == CHOOSE x \in pair : TRUE
      second == CHOOSE y \in pair : pair = {first, y}
  IN first \o <<":", ":">> \o second

\* `${loginA.toLowerCase()}::${loginB.toLowerCase()}`
ComparisonKey(loginA, loginB) ==
  toLowerCase(loginA) \o <<":", ":">> \o toLowerCase(loginB)

\* a thread of the state one synchronous run of the event loop works on
World(rq) == [rq |-> rq, ins |-> insights, cmp |-> comparisons, objs |-> objects]

\* getUserInsights(input, {forceRefresh}) up to its first await, on insights store st
InsightsCall(st, input, force, t) ==
  IF SanitizeThrows(input)
  THEN [store |-> st,
        side |-> [OffSide EXCEPT !.st = "err", !.errType = "Error", !.cause = "input"]]
  ELSE
    LET login == sanitizeLogin(input)
        cacheKey == toLowerCase(login)
        cleared == IF force THEN CacheClear(st, cacheKey) ELSE st
        cached == CacheGet(cleared, cacheKey, t)
    IN [store |-> CacheGetStore(cleared, cacheKey, t),
        side |->
          IF cached # Undefined
          THEN [OffSide EXCEPT !.st = "hit", !.login = login, !.val = cached]
          ELSE [OffSide EXCEPT !.st = "wait", !.login = login, !.user = "wait",
                               !.repos = "wait", !.page = 1,
                               !.gql = IF token THEN "wait" ELSE "null"]]

\* mutant of SettleSide: the record is built as soon as the profile and the
\* listing have answered, without the graph response
SettleSideEarly(w, s, t) ==
  LET sd == w.rq.side[s]
      ref == Len(w.objs) + 1
  IN
  IF sd.st = "wait" /\ sd.user = "ok" /\ sd.repos = "ok"
  THEN [w EXCEPT !.rq.side[s].st = "ok",
                 !.rq.side[s].val = ref,
                 !.ins = CacheSet(w.ins, toLowerCase(sd.login), ref, NoTtl, t),
                 !.objs = Append(w.objs, BuildInsights(sd.login, sd.data, sd.gqlUser))]
  ELSE w

\* getUserInsights: Promise.all resolved, the insights object is built and
\* USER_INSIGHTS_CACHE.remember stores it
SettleSide(w, s, t) ==
  LET sd == w.rq.side[s]
      ref == Len(w.objs) + 1
  IN
  IF sd.st = "wait" /\ sd.user = "ok" /\ sd.repos = "ok" /\ sd.gql \in {"ok", "null"}
  THEN [w EXCEPT !.rq.side[s].st = "ok",
                 !.rq.side[s].val = ref,
                 !.ins = CacheSet(w.ins, toLowerCase(sd.login), ref, NoTtl, t),
                 !.objs = Append(w.objs, BuildInsights(sd.login, sd.data, sd.gqlUser))]
  ELSE w

\* compareUsers: Promise.all of the two getUserInsights settles; on success the
\* comparison is built and COMPARISON_CACHE.remember stores it
SettleCompare(w, t) ==
  LET rq == w.rq
      ref == Len(w.objs) + 1
      bad == IF rq.side["A"].st = "err" THEN "A" ELSE "B"
  IN
  IF rq.cmp # "wait" THEN w
  ELSE IF \E s \in Sides : rq.side[s].st = "err"
  THEN [w EXCEPT !.rq.cmp = "err", !.rq.errSide = bad,
                 !.rq.errType = rq.side[bad].errType,
                 !.rq.errStatus = rq.side[bad].errStatus]
  ELSE IF \A s \in Sides : rq.side[s].st \in {"ok", "hit"}
  THEN [w EXCEPT !.rq.cmp = "ok", !.rq.ret = ref,
                 !.cmp = CacheSet(w.cmp, rq.cmpKey, ref, NoTtl, t),
                 !.objs = Append(w.objs,
                            [type |-> "comparison",
                             userA |-> rq.side["A"].val, userB |-> rq.side["B"].val])]
  ELSE w

\* the status POST answers with from its catch block
RouteStatus(errType, errStatus) ==
  IF errType = "ZodError" THEN 400
  ELSE IF errType = "GitHubApiError" THEN (IF errStatus = 404 THEN 404 ELSE 502)
  ELSE 500

\* generateMeme returns null before any request: no prompt or no credentials
MemeSkipped(prompt) == ~prompt \/ ~imgflip

\* the caller resumes once the promise it awaits has settled
SettleRequest(w) ==
  LET rq == w.rq IN
  IF rq.pc # "wait" THEN w
  ELSE IF rq.kind = "insights" THEN
    IF rq.side["A"].st \in {"ok", "hit"}
    THEN [w EXCEPT !.rq.pc = "done", !.rq.ret = rq.side["A"].val]
    ELSE IF rq.side["A"].st = "err"
    THEN [w EXCEPT !.rq.pc = "done", !.rq.errSide = "A",
                   !.rq.errType = rq.side["A"].errType,
                   !.rq.errStatus = rq.side["A"].errStatus]
    ELSE w
  ELSE IF rq.cmp \in {"ok", "hit"} THEN
    IF rq.kind = "compare" THEN [w EXCEPT !.rq.pc = "done"]
    ELSE IF MemeSkipped(TRUE)
    THEN [w EXCEPT !.rq.pc = "done", !.rq.meme = "null", !.rq.http = 200]
    ELSE [w EXCEPT !.rq.pc = "meme"]
  ELSE IF rq.cmp = "err" THEN
    [w EXCEPT !.rq.pc = "done",
              !.rq.http = IF rq.kind = "post"
                          THEN RouteStatus(rq.errType, rq.errStatus) ELSE 0]
  ELSE w

\* everything that runs, without a further upstream response, after side s changed
Settle(w, s, t) == SettleRequest(SettleCompare(SettleSide(w, s, t), t))

\* the state after one synchronous run
Commit(r, w) ==
  /\ req' = [req EXCEPT ![r] = w.rq]
  /\ insights' = w.ins
  /\ comparisons' = w.cmp
  /\ objects' = w.objs
  /\ nextRef' = Len(w.objs) + 1
  /\ calls' = IF req[r].pc = "idle" THEN calls + 1 ELSE calls
  /\ UNCHANGED <<now, token, imgflip, cacheVars, pureVars>>

\* getUserInsights(input, {forceRefresh}) called directly
GetUserInsights(r, input, force) ==
  /\ req[r].pc = "idle"
  /\ calls < MaxCalls
  /\ LET c == InsightsCall(insights, input, force, now)
         rq == [IdleReq EXCEPT !.kind = "insights", !.pc = "wait", !.a = input,
                               !.force = force, !.side["A"] = c.side,
                               !.startRef = nextRef, !.n = calls + 1]
     IN Commit(r, SettleRequest([World(rq) EXCEPT !.ins = c.store]))

\* compareUsers(a, b, {forceRefresh}) up to its first await, by caller kind
CompareCall(r, kind, a, b, force) ==
  LET rq0 == [IdleReq EXCEPT !.kind = kind, !.pc = "wait", !.a = a, !.b = b,
                             !.force = force, !.startRef = nextRef,
                             !.n = calls + 1]
  IN
  IF SanitizeThrows(a) \/ SanitizeThrows(b)
  THEN SettleRequest(World([rq0 EXCEPT !.cmp = "err", !.errType = "Error"]))
  ELSE
    LET loginA == sanitizeLogin(a)
        loginB == sanitizeLogin(b)
        key == ComparisonKey(loginA, loginB)
        cleared == IF force THEN CacheClear(comparisons, key) ELSE comparisons
        cached == CacheGet(cleared, key, now)
        after == CacheGetStore(cleared, key, now)
        ca == InsightsCall(insights, loginA, force, now)
        cb == InsightsCall(ca.store, loginB, force, now)
    IN
    IF cached # Undefined
    THEN SettleRequest([World([rq0 EXCEPT !.cmp = "hit", !.cmpKey = key,
                                          !.ret = cached])
                        EXCEPT !.cmp = after])
    ELSE SettleRequest(SettleCompare(
           [World([rq0 EXCEPT !.cmp = "wait", !.cmpKey = key,
                              !.side = [s \in Sides |->
                                          IF s = "A" THEN ca.side ELSE cb.side]])
            EXCEPT !.cmp = after, !.ins = cb.store], now))

\* compareUsers(a, b, {forceRefresh}) called directly
CompareUsers(r, a, b, force) ==
  /\ req[r].pc = "idle"
  /\ calls < MaxCalls
  /\ Commit(r, CompareCall(r, "compare", a, b, force))

\* POST /api/compare with body {userA, userB, refresh}
Post(r, a, b, refresh) ==
  /\ req[r].pc = "idle"
  /\ calls < MaxCalls
  /\ IF SchemaAccepts(a, b)
     THEN Commit(r, CompareCall(r, "post", a, b, refresh))
     ELSE Commit(r, World([IdleReq EXCEPT !.kind = "post", !.pc = "done", !.a = a,
                                          !.b = b, !.force = refresh,
                                          !.errType = "ZodError",
                                          !.http = RouteStatus("ZodError", 0),
                                          !.startRef = nextRef, !.n = calls + 1]))

\* a response the rejected Promise.all no longer waits for is not followed further
Cut(status) == IF status = "wait" THEN "cut" ELSE status

\* an upstream call of side s fails: the Promise.all of getUserInsights rejects
\* with a GitHubApiError carrying the status
Reject(rq, s, cause, status) ==
  [rq EXCEPT !.side[s].st = "err", !.side[s].errType = "GitHubApiError",
             !.side[s].errStatus = status, !.side[s].cause = cause,
             !.side[s].user = Cut(@), !.side[s].repos = Cut(@),
             !.side[s].gql = Cut(@)]

\* fetchUser: the profile request answers 200
UserOk(r, s) ==
  /\ req[r].side[s].user = "wait"
  /\ Commit(r, Settle(World([req[r] EXCEPT !.side[s].user = "ok"]), s, now))

\* fetchUser: the profile request answers a non-success status
UserFail(r, s, status) ==
  /\ req[r].side[s].user = "wait"
  /\ Commit(r, Settle(World(Reject([req[r] EXCEPT !.side[s].user =
                                      IF status = 404 THEN "404" ELSE "err"],
                                   s, "user", status)), s, now))

\* fetchUserRepositories: const perPage = 100
perPage == 100

\* mutant of ReposPage: the loop has no page limit
ReposPageNoLimit(r, s, batch, next) ==
  /\ req[r].side[s].repos = "wait"
  /\ Len(req[r].side[s].got) < 4
  /\ LET page == req[r].side[s].page
         pushed == [req[r] EXCEPT
                      !.side[s].data = @ \o batch,
                      !.side[s].got = Append(@, [page |-> page, batch |-> batch,
                                                 next |-> next])]
     IN
     IF ~next \/ Len(batch) < perPage
     THEN Commit(r, Settle(World([pushed EXCEPT !.side[s].repos = "ok"]), s, now))
     ELSE Commit(r, World([pushed EXCEPT !.side[s].page = page + 1]))

\* fetchUserRepositories: a page answers 200 with the items batch; next says its
\* link header has rel="next"; got is the history of the pages received
ReposPage(r, s, batch, next) ==
  /\ req[r].side[s].repos = "wait"
  /\ LET page == req[r].side[s].page
         pushed == [req[r] EXCEPT
                      !.side[s].data = @ \o batch,
                      !.side[s].got = Append(@, [page |-> page, batch |-> batch,
                                                 next |-> next])]
     IN
     IF ~next \/ Len(batch) < perPage \/ page >= 3
     THEN Commit(r, Settle(World([pushed EXCEPT !.side[s].repos = "ok"]), s, now))
     ELSE Commit(r, World([pushed EXCEPT !.side[s].page = page + 1]))

\* fetchUserRepositories: a page answers a non-success status
ReposFail(r, s, status) ==
  /\ req[r].side[s].repos = "wait"
  /\ Commit(r, Settle(World(Reject([req[r] EXCEPT !.side[s].repos = "err"],
                                   s, "repos", status)), s, now))

\* githubGraphqlFetch: the graph request answers 200 without errors; user is
\* data.user
GraphOk(r, s, user) ==
  /\ req[r].side[s].gql = "wait"
  /\ Commit(r, Settle(World([req[r] EXCEPT !.side[s].gql = "ok",
                                           !.side[s].gqlUser = Some(user)]), s, now))

\* githubGraphqlFetch: a non-success status, or 200 with a non-empty errors array
GraphFail(r, s, status) ==
  /\ req[r].side[s].gql = "wait"
  /\ Commit(r, Settle(World(Reject([req[r] EXCEPT !.side[s].gql = "err"],
                                   s, "gql", status)), s, now))

\* generateMeme: Imgflip answers 200 with success and data
MemeOk(r) ==
  /\ req[r].pc = "meme"
  /\ req' = [req EXCEPT ![r].pc = "done", ![r].meme = "url", ![r].http = 200]
  /\ UNCHANGED <<now, nextRef, token, imgflip, insights, comparisons, objects, calls, cacheVars, pureVars>>

\* generateMeme: a non-success status, success = false, no data, or a body that
\* is not JSON (read as {})
MemeRefused(r) ==
  /\ req[r].pc = "meme"
  /\ req' = [req EXCEPT ![r].pc = "done", ![r].meme = "null", ![r].http = 200]
  /\ UNCHANGED <<now, nextRef, token, imgflip, insights, comparisons, objects, calls, cacheVars, pureVars>>

\* generateMeme: fetch itself rejects (no connection); nothing in generateMeme
\* catches it, so POST's catch block answers
MemeFetchThrows(r) ==
  /\ req[r].pc = "meme"
  /\ req' = [req EXCEPT ![r].pc = "done", ![r].errType = "TypeError",
                        ![r].http = RouteStatus("TypeError", 0)]
  /\ UNCHANGED <<now, nextRef, token, imgflip, insights, comparisons, objects, calls, cacheVars, pureVars>>

\* no upstream response of call r is outstanding
Quiescent(rq) ==
  \A s \in Sides : rq.side[s].user # "wait" /\ rq.side[s].repos # "wait"
                     /\ rq.side[s].gql # "wait"

\* the caller has its answer and nothing of the call is left in flight: the
\* caller goes on to its next call
Return(r) ==
  /\ req[r].pc = "done"
  /\ Quiescent(req[r])
  /\ calls < MaxCalls
  /\ req' = [req EXCEPT ![r] = IdleReq]
  /\ UNCHANGED <<now, nextRef, token, imgflip, insights, comparisons, objects, calls, cacheVars, pureVars>>

\* the clock advances
Tick ==
  /\ now < MaxTicks * TickMs
  /\ now' = now + TickMs
  /\ UNCHANGED <<nextRef, cacheVars, pipeVars, pureVars>>

Init ==
  /\ now = 0
  /\ nextRef = 1
  /\ store = [x \in {} |-> Undefined]
  /\ caller = [p \in Callers |-> IdleCall]
  /\ lastSet = [k \in Keys |-> NoSet]
  /\ lastOp = NoOp
  /\ profiles = <<>>
  /\ comparison = <<>>
  /\ byteCounts = <<>>
  /\ languageStats = <<>>
  /\ dayCounts = <<>>
  /\ contributionStats = <<>>
  /\ graphRepos = <<>>
  /\ token \in BOOLEAN
  /\ imgflip \in BOOLEAN
  /\ insights = [x \in {} |-> Undefined]
  /\ comparisons = [x \in {} |-> Undefined]
  /\ objects = <<>>
  /\ req = [r \in Reqs |-> IdleReq]
  /\ calls = 0

\* Spec: one caller makes its calls one after the other; every upstream outcome
Next ==
  \/ Tick
  \/ \E a \in RawInputs, f \in BOOLEAN : GetUserInsights("r1", a, f)
  \/ \E p \in RawPairs, f \in BOOLEAN : CompareUsers("r1", p[1], p[2], f)
  \/ \E p \in RawPairs, f \in BOOLEAN : Post("r1", p[1], p[2], f)
  \/ \E s \in Sides : UserOk("r1", s)
  \/ \E s \in Sides, status \in RestFailures : UserFail("r1", s, status)
  \/ \E s \in Sides : ReposPage("r1", s, OnePage, FALSE)
  \/ \E s \in Sides, status \in RestFailures : ReposFail("r1", s, status)
  \/ \E s \in Sides : GraphOk("r1", s, OneGraph)
  \/ \E s \in Sides, status \in GraphFailures : GraphFail("r1", s, status)
  \/ MemeOk("r1")
  \/ MemeRefused("r1")
  \/ MemeFetchThrows("r1")
  \/ Return("r1")

Spec == Init /\ [][Next]_vars

\* the calls that race: valid handles, in both orders
RaceInputs == {<<"a">>, <<"B">>}
RacePairs == {<<<<"a">>, <<"B">>>>, <<<<"B">>, <<"a">>>>}

\* SpecRace: two callers at once; every upstream call succeeds
NextRace ==
  \/ \E r \in Reqs, a \in RaceInputs, f \in BOOLEAN : GetUserInsights(r, a, f)
  \/ \E r \in Reqs, p \in RacePairs, f \in BOOLEAN : CompareUsers(r, p[1], p[2], f)
  \/ \E r \in Reqs, s \in Sides : UserOk(r, s)
  \/ \E r \in Reqs, s \in Sides : ReposPage(r, s, OnePage, FALSE)
  \/ \E r \in Reqs, s \in Sides : GraphOk(r, s, OneGraph)

SpecRace == Init /\ [][NextRace]_vars

\* ordered pairs of handles with and without a colon that comparisonInputSchema
\* accepts
KeyPairs ==
  {p \in {<<<<"a">>, <<"b">>>>, <<<<"a", ":">>, <<"b">>>>, <<<<"a">>, <<":", "b">>>>} :
     SchemaAccepts(p[1], p[2])}

\* SpecKeys: two callers of compareUsers with pairs the schema accepts; every
\* upstream call succeeds
NextKeys ==
  \/ \E r \in Reqs, p \in KeyPairs : CompareUsers(r, p[1], p[2], FALSE)
  \/ \E r \in Reqs, s \in Sides : UserOk(r, s)
  \/ \E r \in Reqs, s \in Sides : ReposPage(r, s, OnePage, FALSE)
  \/ \E r \in Reqs, s \in Sides : GraphOk(r, s, OneGraph)

SpecKeys == Init /\ [][NextKeys]_vars

\* SpecInsights: one getUserInsights call; the responses carry every page of
\* RepoLists and every graph user of GraphSamples
NextInsights ==
  \/ \E a \in RaceInputs, f \in BOOLEAN : GetUserInsights("r1", a, f)
  \/ UserOk("r1", "A")
  \/ \E batch \in RepoLists : ReposPage("r1", "A", batch, FALSE)
  \/ \E user \in GraphSamples : GraphOk("r1", "A", user)

SpecInsights == Init /\ [][NextInsights]_vars

\* a page of perPage repositories
FullPage(repo) == [i \in 1..perPage |-> repo]

\* the pages a listing answers with: none, one repository, perPage repositories
PageSamples ==
  {<<>>, OnePage} \cup {FullPage(repo) : repo \in {x \in RepoSamples : x.name \in {"y", "w"}}}

\* SpecPages: one getUserInsights call whose listing answers page by page
NextPages ==
  \/ \E f \in BOOLEAN : GetUserInsights("r1", <<"a">>, f)
  \/ UserOk("r1", "A")
  \/ \E batch \in PageSamples, next \in BOOLEAN : ReposPage("r1", "A", batch, next)
  \/ \E status \in RestFailures : ReposFail("r1", "A", status)
  \/ GraphOk("r1", "A", OneGraph)

SpecPages == Init /\ [][NextPages]_vars

\* SpecFetch: two callers of getUserInsights for one handle; every upstream
\* outcome
NextFetch ==
  \/ \E r \in Reqs, f \in BOOLEAN : GetUserInsights(r, <<"a">>, f)
  \/ \E r \in Reqs : UserOk(r, "A")
  \/ \E r \in Reqs, status \in RestFailures : UserFail(r, "A", status)
  \/ \E r \in Reqs : ReposPage(r, "A", OnePage, FALSE)
  \/ \E r \in Reqs, status \in RestFailures : ReposFail(r, "A", status)
  \/ \E r \in Reqs : GraphOk(r, "A", OneGraph)
  \/ \E r \in Reqs, status \in GraphFailures : GraphFail(r, "A", status)

SpecFetch == Init /\ [][NextFetch]_vars

\* the forms a caller writes the handle h in
Forms(h) ==
  {h, <<"@">> \o h, <<"github.com", "/">> \o h,
   <<"https:", "/", "/", "github.com", "/">> \o h,
   <<"https:", "/", "/", "GitHub.com", "/">> \o h \o <<"/">>,
   <<"https:", "/", "/", "www.", "github.com", "/">> \o h \o <<"?", "tab">>}

\* a handle in its letter cases, and another handle
FormHandles == {<<"a">>, <<"A">>}
FormInputs == UNION {Forms(h) : h \in FormHandles} \cup {<<"b">>}

\* SpecForms: two callers of getUserInsights write one handle in all its forms
NextForms ==
  \/ \E r \in Reqs, a \in FormInputs, f \in BOOLEAN : GetUserInsights(r, a, f)
  \/ \E r \in Reqs : UserOk(r, "A")
  \/ \E r \in Reqs : ReposPage(r, "A", OnePage, FALSE)
  \/ \E r \in Reqs : GraphOk(r, "A", OneGraph)

SpecForms == Init /\ [][NextForms]_vars

\* the two insights records of a comparison; the language and contribution
\* statistics come together, as a graph response does
StatSamples ==
  {[contributions |-> None, languages |-> <<>>]}
  \cup {[contributions |-> Some([weeklyAverage |-> 100, lastYear |-> 52, pullRequests |-> 3]),
         languages |-> <<[name |-> "Go", percentage |-> share]>>]
           : share \in {3333, 3334, 3335}}

ProfileSamples(login) ==
  {[login |-> login, publicRepos |-> publicRepos, followers |-> followers,
    totals |-> [stars |-> stars],
    contributions |-> stat.contributions, languages |-> stat.languages]
     : publicRepos \in {3, 13}, stars \in {350, 450, 500},
       followers \in {10, 15, 160, 400}, stat \in StatSamples}

\* SpecCompare: the factory of compareUsers, from the point where both
\* getUserInsights have resolved, on every pair of ProfileSamples
InitCompare ==
  /\ now = 0
  /\ nextRef = 1
  /\ store = [x \in {} |-> Undefined]
  /\ caller = [p \in Callers |-> IdleCall]
  /\ lastSet = [k \in Keys |-> NoSet]
  /\ lastOp = NoOp
  /\ token = FALSE
  /\ imgflip = FALSE
  /\ insights = [x \in {} |-> Undefined]
  /\ comparisons = [x \in {} |-> Undefined]
  /\ objects = <<>>
  /\ req = [r \in Reqs |-> IdleReq]
  /\ calls = 0
  /\ profiles \in {<<userA, userB>> : userA \in ProfileSamples(<<"a">>),
                                       userB \in ProfileSamples(<<"b">>)}
  /\ comparison = None
  /\ byteCounts = <<>>
  /\ languageStats = None
  /\ dayCounts = <<>>
  /\ contributionStats = <<>>
  /\ graphRepos = <<>>

\* compareUsers builds the comparison; random is what the calls of Math.random()
\* return
Compare(random) ==
  /\ profiles # <<>>
  /\ comparison' = Some(BuildComparison(profiles[1], profiles[2], random))
  /\ UNCHANGED <<now, nextRef, cacheVars, pipeVars, profiles, byteCounts, languageStats,
               dayCounts, contributionStats, graphRepos>>

\* SpecCompare draws the template; the two texts are the first of their options
TemplateDraws == {<<random, 0, 0>> : random \in Randoms}

NextCompare == \E random \in TemplateDraws : Compare(random)

SpecCompare == InitCompare /\ [][NextCompare]_vars

\* SpecPrompt: the comparisons of fewer profiles, with every draw of the template
\* and of the two texts
PromptProfiles(login) ==
  {user \in ProfileSamples(login) :
     /\ user.publicRepos = 3 /\ user.totals.stars # 450 /\ user.followers # 160
     /\ user.languages = <<>> \/ user.languages[1].percentage = 3333}

InitPrompt ==
  /\ now = 0
  /\ nextRef = 1
  /\ store = [x \in {} |-> Undefined]
  /\ caller = [p \in Callers |-> IdleCall]
  /\ lastSet = [k \in Keys |-> NoSet]
  /\ lastOp = NoOp
  /\ token = FALSE
  /\ imgflip = FALSE
  /\ insights = [x \in {} |-> Undefined]
  /\ comparisons = [x \in {} |-> Undefined]
  /\ objects = <<>>
  /\ req = [r \in Reqs |-> IdleReq]
  /\ calls = 0
  /\ profiles \in {<<userA, userB>> : userA \in PromptProfiles(<<"a">>),
                                       userB \in PromptProfiles(<<"b">>)}
  /\ comparison = None
  /\ byteCounts = <<>>
  /\ languageStats = None
  /\ dayCounts = <<>>
  /\ contributionStats = None
  /\ graphRepos = <<>>

NextPrompt == \E random \in Randoms \X Randoms \X Randoms : Compare(random)

SpecPrompt == InitPrompt /\ [][NextPrompt]_vars

\* the languages of a graph response
MaxLanguages == 4
LanguageNames == <<"Go", "TypeScript", "Rust", "C", "Python", "Java", "Ruby", "Zig",
                   "Lua", "Perl", "Shell", "Swift", "Kotlin", "Scala", "Dart", "Elixir",
                   "Haskell", "OCaml">>

\* the sizes of the language edges
ByteSamples == {1, 2, 4}

\* the graph repositories that carry the byte counts: one repository, one edge
\* per language
GraphOf(counts) ==
  <<[languages |-> [i \in 1..Len(counts) |->
                      [name |-> LanguageNames[i], size |-> counts[i]]]]>>

\* two repositories: the first has two edges for each language, the second one
GraphRepeated(counts) ==
  <<[languages |-> [i \in 1..(2 * Len(counts)) |->
                      [name |-> LanguageNames[(i + 1) \div 2],
                       size |-> counts[(i + 1) \div 2]]]],
    [languages |-> [i \in 1..Len(counts) |->
                      [name |-> LanguageNames[i], size |-> counts[i]]]]>>

\* one repository with three languages for each byte count, the k-th of them
\* k times as large
GraphWide(counts) ==
  <<[languages |-> [i \in 1..(3 * Len(counts)) |->
                      [name |-> LanguageNames[i],
                       size |-> counts[((i - 1) % Len(counts)) + 1]
                                  * (((i - 1) \div Len(counts)) + 1)]]]>>

\* SpecLanguages: aggregateLanguageStats on a graph response built from the
\* byte counts of up to MaxLanguages languages
InitLanguages ==
  /\ now = 0
  /\ nextRef = 1
  /\ store = [x \in {} |-> Undefined]
  /\ caller = [p \in Callers |-> IdleCall]
  /\ lastSet = [k \in Keys |-> NoSet]
  /\ lastOp = NoOp
  /\ token = FALSE
  /\ imgflip = FALSE
  /\ insights = [x \in {} |-> Undefined]
  /\ comparisons = [x \in {} |-> Undefined]
  /\ objects = <<>>
  /\ req = [r \in Reqs |-> IdleReq]
  /\ calls = 0
  /\ profiles = <<>>
  /\ comparison = None
  /\ byteCounts \in UNION {[1..n -> ByteSamples] : n \in 0..MaxLanguages}
  /\ languageStats = None
  /\ dayCounts = <<>>
  /\ contributionStats = <<>>
  /\ graphRepos \in {GraphOf(byteCounts), GraphRepeated(byteCounts), GraphWide(byteCounts),
                     GraphWide(byteCounts) \o GraphRepeated(byteCounts)}

Aggregate ==
  /\ languageStats = None
  /\ languageStats' = Some(aggregateLanguageStats(<<>>, Some(graphRepos)))
  /\ UNCHANGED <<now, nextRef, cacheVars, pipeVars, profiles, comparison, byteCounts,
               dayCounts, contributionStats, graphRepos>>

NextLanguages == Aggregate

SpecLanguages == InitLanguages /\ [][NextLanguages]_vars

\* a calendar has at most MaxDays days
MaxDays == 8

\* the contribution counts of a day
CountSamples == {0, 1, 3}

\* contributionCalendar.weeks: the days, dated by their position, in weeks of 7
CalendarOf(counts) ==
  [w \in 1..((Len(counts) + 6) \div 7) |->
     [firstDay |-> 7 * (w - 1) + 1,
      contributionDays |->
        [d \in 1..(IF 7 * w <= Len(counts) THEN 7 ELSE Len(counts) - 7 * (w - 1)) |->
           [date |-> 7 * (w - 1) + d,
            contributionCount |-> counts[7 * (w - 1) + d]]]]]

\* the contributionsCollection of a graph response with these daily counts
CollectionOf(counts) ==
  Some([totalContributions |-> SumOf(counts), totalPullRequestContributions |-> 0,
        weeks |-> CalendarOf(counts)])

\* SpecStreak: aggregateContributionStats on the calendars of up to MaxDays days
InitStreak ==
  /\ now = 0
  /\ nextRef = 1
  /\ store = [x \in {} |-> Undefined]
  /\ caller = [p \in Callers |-> IdleCall]
  /\ lastSet = [k \in Keys |-> NoSet]
  /\ lastOp = NoOp
  /\ token = FALSE
  /\ imgflip = FALSE
  /\ insights = [x \in {} |-> Undefined]
  /\ comparisons = [x \in {} |-> Undefined]
  /\ objects = <<>>
  /\ req = [r \in Reqs |-> IdleReq]
  /\ calls = 0
  /\ profiles = <<>>
  /\ comparison = None
  /\ byteCounts = <<>>
  /\ languageStats = None
  /\ dayCounts \in UNION {[1..n -> CountSamples] : n \in 0..MaxDays}
  /\ contributionStats = None
  /\ graphRepos = <<>>

AggregateContributions ==
  /\ contributionStats = None
  /\ contributionStats' = aggregateContributionStats(CollectionOf(dayCounts))
  /\ UNCHANGED <<now, nextRef, cacheVars, pipeVars, profiles, comparison, byteCounts,
                 languageStats, dayCounts, graphRepos>>

NextStreak == AggregateContributions

SpecStreak == InitStreak /\ [][NextStreak]_vars

----------------------------------------------------------------------------
(* Claims on the pipeline                                                  *)

Max(x, y) == IF x >= y THEN x ELSE y

\* the insights cache key of a getUserInsights call
SideKey(sd) == toLowerCase(sd.login)

\* the call ran its factory: it missed the cache and issued upstream calls
RanFactory(sd) == sd.st \in {"wait", "ok"} /\ sd.user # "off" /\ sd.repos # "off"

\* C2 as claimed: of two compareUsers calls on one key, the second begun while
\* the first's factory was still running, the second issues its own upstream
\* calls for both handles.
C2_IndependentUpstreamCalls ==
  \A r1 \in Reqs : \A r2 \in Reqs \ {r1} :
    (/\ req[r1].kind = "compare" /\ req[r2].kind = "compare"
     /\ req[r1].n < req[r2].n
     /\ req[r1].cmpKey = req[r2].cmpKey
     /\ req[r1].cmp \in {"wait", "ok"}
     /\ req[r1].cmp = "wait" \/ req[r1].ret >= req[r2].startRef)
    => \A s \in Sides : RanFactory(req[r2].side[s])

\* C2 amended: when a call starts while another call on the same cache key has
\* its factory running, it runs its own factory too.  For getUserInsights
\* that is its own three upstream calls; for compareUsers it is its own two
\* getUserInsights lookups, each of which issues upstream calls unless the
\* insights entry of that handle is already stored.  Once both calls have
\* completed, the entry holds the value of the one that completed last.
C2_LastWriterWins ==
  \A r1 \in Reqs : \A r2 \in Reqs \ {r1} :
    /\ \A s1 \in Sides, s2 \in Sides :
         LET c1 == req[r1].side[s1]
             c2 == req[r2].side[s2]
         IN (/\ req[r1].n < req[r2].n
             /\ RanFactory(c1) /\ c2.st \in {"hit", "wait", "ok"}
             /\ SideKey(c1) = SideKey(c2)
             /\ c1.st = "wait" \/ c1.val >= req[r2].startRef)
            => /\ RanFactory(c2)
               /\ (c1.st = "ok" /\ c2.st = "ok") =>
                    /\ c1.val # c2.val
                    /\ SideKey(c1) \in DOMAIN insights
                    /\ insights[SideKey(c1)].value = Max(c1.val, c2.val)
    /\ (/\ req[r1].kind = "compare" /\ req[r2].kind = "compare"
        /\ req[r1].n < req[r2].n
        /\ req[r1].cmpKey = req[r2].cmpKey
        /\ req[r1].cmp \in {"wait", "ok"}
        /\ req[r1].cmp = "wait" \/ req[r1].ret >= req[r2].startRef)
       => /\ req[r2].cmp \in {"wait", "ok"}
          /\ \A s \in Sides :
               \/ RanFactory(req[r2].side[s])
               \/ /\ req[r2].side[s].st = "hit"
                  /\ req[r2].side[s].val = req[r1].side[s].val
          /\ (req[r1].cmp = "ok" /\ req[r2].cmp = "ok") =>
               /\ req[r1].ret # req[r2].ret
               /\ req[r1].cmpKey \in DOMAIN comparisons
               /\ comparisons[req[r1].cmpKey].value = Max(req[r1].ret, req[r2].ret)

\* C2 witness: two compareUsers calls on one key overlapped and both completed;
\* the one that started first completed last, and its value is the entry
C2_Witness ==
  \E r1 \in Reqs : \E r2 \in Reqs \ {r1} :
    /\ req[r1].kind = "compare" /\ req[r2].kind = "compare"
    /\ req[r1].n < req[r2].n
    /\ req[r1].cmpKey = req[r2].cmpKey
    /\ req[r1].cmp = "ok" /\ req[r2].cmp = "ok"
    /\ req[r1].ret > req[r2].ret
    /\ \A s \in Sides : RanFactory(req[r1].side[s]) /\ RanFactory(req[r2].side[s])
    /\ comparisons[req[r1].cmpKey].value = req[r1].ret

\* call r2 is a forceRefresh that has stored its record for side s2, and side s1
\* of call r1, on the same key, was in flight when r2 started and has completed
\* after r2's refresh
StaleAfterRefresh(r1, s1, r2, s2) ==
  LET c1 == req[r1].side[s1]
      c2 == req[r2].side[s2]
  IN /\ req[r2].force /\ RanFactory(c2) /\ c2.st = "ok"
     /\ req[r1].n < req[r2].n
     /\ RanFactory(c1) /\ c1.st = "ok"
     /\ SideKey(c1) = SideKey(c2)
     /\ c1.val > c2.val

\* C28 as claimed: the record of a fetch that was in flight when a forceRefresh
\* of the same key started, and that completes after the refresh has stored
\* its record, never replaces the refreshed entry: a lookup still returns the
\* record of the refresh.
C28_StaleFetchNeverReplaces ==
  \A r1 \in Reqs : \A r2 \in Reqs \ {r1} : \A s1 \in Sides, s2 \in Sides :
    StaleAfterRefresh(r1, s1, r2, s2) =>
      CacheGet(insights, SideKey(req[r2].side[s2]), now) = req[r2].side[s2].val

\* C28 amended: once a forceRefresh has stored its record, a lookup returns
\* that record as long as no other fetch of the key has completed since; a
\* fetch that was in flight when the refresh started and completes after it
\* replaces the refreshed entry, and a lookup then returns the older fetch's
\* record.
C28_LaterCompletionReplacesRefresh ==
  \A r1 \in Reqs : \A r2 \in Reqs \ {r1} : \A s1 \in Sides, s2 \in Sides :
    LET c1 == req[r1].side[s1]
        c2 == req[r2].side[s2]
    IN
    /\ StaleAfterRefresh(r1, s1, r2, s2) =>
         CacheGet(insights, SideKey(c2), now) = c1.val
    /\ (/\ req[r2].force /\ RanFactory(c2) /\ c2.st = "ok"
        /\ req[r1].n < req[r2].n
        /\ RanFactory(c1) /\ c1.st = "wait"
        /\ SideKey(c1) = SideKey(c2)
        /\ \A s \in Sides \ {s2} :
             req[r2].side[s].st = "ok" /\ SideKey(req[r2].side[s]) = SideKey(c2)
               => req[r2].side[s].val < c2.val)
       => CacheGet(insights, SideKey(c2), now) = c2.val

\* C28 witness: a getUserInsights call was waiting for its upstream calls when
\* a forceRefresh of the same handle started; the refresh stored its record
\* first, the older call completed after it and its record is the entry
C28_Witness ==
  \E r1 \in Reqs : \E r2 \in Reqs \ {r1} :
    /\ req[r1].kind = "insights" /\ req[r2].kind = "insights"
    /\ ~req[r1].force
    /\ StaleAfterRefresh(r1, "A", r2, "A")
    /\ insights[SideKey(req[r1].side["A"])].value = req[r1].side["A"].val

\* the call returned a value to its caller
Returned(rq) == rq.pc = "done" /\ rq.errType = ""

\* C5: a call made with forceRefresh returns objects created after it started,
\* never one the caches held at its start: the insights object of a
\* getUserInsights call, the comparison object of a compareUsers call and
\* the two insights objects inside it; each of them was fetched upstream by
\* this call.
C5_ForceRefreshReturnsFreshValue ==
  \A r \in Reqs :
    (req[r].force /\ Returned(req[r])) =>
      /\ req[r].ret >= req[r].startRef
      /\ req[r].kind = "insights" => RanFactory(req[r].side["A"])
      /\ req[r].kind = "compare" =>
           /\ req[r].cmp = "ok"
           /\ objects[req[r].ret].userA >= req[r].startRef
           /\ objects[req[r].ret].userB >= req[r].startRef
           /\ \A s \in Sides : RanFactory(req[r].side[s])

\* C5 witness: a forced compareUsers returns while the comparison entry and
\* both insights entries stored by an earlier call were live at its start
C5_Witness ==
  \E r1 \in Reqs : \E r2 \in Reqs \ {r1} :
    /\ req[r1].kind = "compare" /\ req[r1].cmp = "ok"
    /\ req[r2].kind = "compare" /\ req[r2].force /\ Returned(req[r2])
    /\ req[r1].cmpKey = req[r2].cmpKey
    /\ req[r1].ret < req[r2].startRef

\* the getUserInsights calls of a comparison that an upstream failure rejected
FailedSides(rq) == {s \in Sides : rq.side[s].errType = "GitHubApiError"}

\* nothing call rq created is stored under key k of store st
NotWrittenBy(rq, st, k) == k \in DOMAIN st => st[k].value < rq.startRef

\* C6: if an upstream call fails for either user, compareUsers fails with an
\* upstream error of a call that failed, returns no comparison, and stores
\* neither a comparison for the pair nor insights for the user whose fetch
\* failed.
C6_UpstreamFailureAbortsComparison ==
  \A r \in Reqs :
    (req[r].kind \in {"compare", "post"} /\ FailedSides(req[r]) # {}) =>
      /\ req[r].cmp = "err"
      /\ req[r].ret = Undefined
      /\ req[r].errType = "GitHubApiError"
      /\ req[r].errStatus \in {req[r].side[s].errStatus : s \in FailedSides(req[r])}
      /\ NotWrittenBy(req[r], comparisons, req[r].cmpKey)
      /\ \A s \in FailedSides(req[r]) :
           /\ req[r].side[s].val = Undefined
           /\ NotWrittenBy(req[r], insights, SideKey(req[r].side[s]))

\* C7: whenever the profile request of a handle answers 404 and the POST fails
\* with an upstream error, the caller is answered 404.
C7_NotFoundAlwaysSurfaced ==
  \A r \in Reqs :
    (/\ req[r].kind = "post" /\ req[r].pc = "done"
     /\ req[r].errType = "GitHubApiError"
     /\ \E s \in Sides : req[r].side[s].user = "404")
    => req[r].http = 404

\* the call starts in this step
Starts(r) == req[r].pc = "idle" /\ req'[r].pc # "idle"

\* C8: getUserInsights or compareUsers called with an input that is empty after
\* trimming (for compareUsers: either input) fails at once with the
\* empty-input error, issues no upstream call and leaves both caches as they
\* were.
C8_BlankInputFailsLocally ==
  [][\A r \in Reqs :
       (/\ Starts(r)
        /\ \/ req'[r].kind = "insights" /\ trim(req'[r].a) = <<>>
           \/ req'[r].kind = "compare" /\ trim(req'[r].a) = <<>>
           \/ req'[r].kind = "compare" /\ trim(req'[r].b) = <<>>)
       => /\ req'[r].pc = "done"
          /\ req'[r].errType = "Error"
          /\ req'[r].ret = Undefined
          /\ \A s \in Sides : /\ req'[r].side[s].user = "off"
                              /\ req'[r].side[s].repos = "off"
                              /\ req'[r].side[s].gql = "off"
          /\ insights' = insights
          /\ comparisons' = comparisons
          /\ objects' = objects]_vars

\* C8 witness: compareUsers with forceRefresh, a cached first handle and a blank
\* second input has failed
C8_Witness ==
  \E r \in Reqs :
    /\ req[r].kind = "compare" /\ req[r].pc = "done" /\ req[r].force
    /\ trim(req[r].a) # <<>> /\ trim(req[r].b) = <<>>
    /\ req[r].errType = "Error"
    /\ toLowerCase(sanitizeLogin(req[r].a)) \in DOMAIN insights

\* how many of the repositories have language lang as their primary language
ReposIn(repos, lang) == Cardinality({i \in 1..Len(repos) : repos[i].language = lang})

\* C9: without a token no graph request is ever issued and the graph call counts
\* as completed with no data; once the profile and the listing have answered,
\* getUserInsights has succeeded, and its record has no contributions, no
\* pinned list, one language entry per primary language with bytes and
\* repoCount both equal to the number of repositories in that language,
\* totals that are the sums over the listed repositories, highlights taken
\* from the listed repositories and the repository list in listing order.
C9_NoTokenStillSucceeds ==
  ~token =>
    \A r \in Reqs : \A s \in Sides :
      LET sd == req[r].side[s] IN
      /\ sd.gql \in {"off", "null"}
      /\ sd.gqlUser = None
      /\ (sd.user = "ok" /\ sd.repos = "ok") => sd.st = "ok"
      /\ sd.st = "ok" =>
           LET o == objects[sd.val]
               repos == sd.data
               idx == 1..Len(repos)
               langs == {repos[i].language : i \in idx} \ {NoLanguage}
           IN
           /\ o.contributions = None
           /\ o.highlights.pinned = None
           /\ Len(o.languages) = Cardinality(langs)
           /\ {o.languages[i].name : i \in 1..Len(o.languages)} = langs
           /\ \A i \in 1..Len(o.languages) :
                /\ o.languages[i].bytes = ReposIn(repos, o.languages[i].name)
                /\ o.languages[i].repoCount = ReposIn(repos, o.languages[i].name)
           /\ o.totals.stars = SumOf([i \in idx |-> repos[i].stargazers_count])
           /\ o.totals.forks = SumOf([i \in idx |-> repos[i].forks_count])
           /\ o.totals.watchers = SumOf([i \in idx |-> repos[i].watchers_count])
           /\ o.totals.issues = SumOf([i \in idx |-> repos[i].open_issues_count])
           /\ Len(o.repositories) = Len(repos)
           /\ \A i \in idx : /\ o.repositories[i].name = repos[i].name
                             /\ o.repositories[i].stargazers = repos[i].stargazers_count
                             /\ o.repositories[i].primaryLanguage = repos[i].language
           /\ repos = <<>> =>
                /\ o.highlights.mostStarred = None /\ o.highlights.mostForked = None
                /\ o.highlights.oldestRepo = None /\ o.highlights.newestRepo = None
           /\ repos # <<>> =>
                /\ o.highlights.mostStarred # None
                /\ o.highlights.mostStarred[1].stargazers =
                     MaxOf([i \in idx |-> repos[i].stargazers_count])
                /\ o.highlights.mostForked # None
                /\ o.highlights.mostForked[1].forks =
                     MaxOf([i \in idx |-> repos[i].forks_count])
                /\ o.highlights.oldestRepo # None
                /\ \A i \in idx : o.highlights.oldestRepo[1].createdAt <= repos[i].created_at
                /\ o.highlights.newestRepo # None
                /\ \A i \in idx : o.highlights.newestRepo[1].updatedAt >= repos[i].updated_at
                /\ \A h \in {o.highlights.mostStarred[1], o.highlights.mostForked[1],
                             o.highlights.oldestRepo[1], o.highlights.newestRepo[1]} :
                     \E i \in idx : h = o.repositories[i]

\* the first position of the list whose value no other position exceeds
FirstLargest(value) ==
  CHOOSE i \in DOMAIN value :
    /\ \A j \in DOMAIN value : value[j] <= value[i]
    /\ \A j \in DOMAIN value : value[j] = value[i] => i <= j

\* C26: of a record built from a non-empty repository list, mostStarred,
\* mostForked, oldestRepo and newestRepo are the first repository in list order
\* among those with the most stars, the most forks, the earliest created_at and
\* the latest updated_at; of a record built from an empty list all four are
\* absent.
C26_HighlightsAreFirstExtremes ==
  \A r \in Reqs : \A s \in Sides :
    LET sd == req[r].side[s] IN
    sd.st = "ok" =>
      LET h == objects[sd.val].highlights
          repos == sd.data
          idx == 1..Len(repos)
      IN
      /\ repos = <<>> =>
           /\ h.mostStarred = None /\ h.mostForked = None
           /\ h.oldestRepo = None /\ h.newestRepo = None
      /\ repos # <<>> =>
           /\ h.mostStarred = Some(formatRepository(
                 repos[FirstLargest([i \in idx |-> repos[i].stargazers_count])]))
           /\ h.mostForked = Some(formatRepository(
                 repos[FirstLargest([i \in idx |-> repos[i].forks_count])]))
           /\ h.oldestRepo = Some(formatRepository(
                 repos[FirstLargest([i \in idx |-> 0 - repos[i].created_at])]))
           /\ h.newestRepo = Some(formatRepository(
                 repos[FirstLargest([i \in idx |-> repos[i].updated_at])]))

\* C26 witness: a record built from a list in which the second and the third
\* repository both have the most stars; mostStarred is the second
C26_Witness ==
  \E r \in Reqs :
    LET sd == req[r].side["A"] IN
    /\ sd.st = "ok"
    /\ Len(sd.data) = 3
    /\ sd.data[2].stargazers_count = sd.data[3].stargazers_count
    /\ sd.data[1].stargazers_count < sd.data[2].stargazers_count
    /\ objects[sd.val].highlights.mostStarred = Some(formatRepository(sd.data[2]))
    /\ objects[sd.val].highlights.mostStarred # Some(formatRepository(sd.data[3]))

\* C9 witness: without a token, a call has returned a record built from three
\* repositories, two with the same primary language and one with none
C9_Witness ==
  \E r \in Reqs :
    /\ ~token
    /\ Returned(req[r]) /\ req[r].kind = "insights"
    /\ req[r].side["A"].st = "ok"
    /\ Len(req[r].side["A"].data) = 3
    /\ Len(objects[req[r].ret].languages) = 1
    /\ objects[req[r].ret].languages[1].bytes = 2

\* C10: once the comparison is there, whatever the caption service does, POST
\* answers 200.
C10_MemeFailureNeverFailsRequest ==
  \A r \in Reqs :
    (req[r].kind = "post" /\ req[r].pc = "done" /\ req[r].cmp \in {"ok", "hit"})
    => req[r].http = 200

\* the lower-cased handle an input stands for
HandleOf(input) == toLowerCase(sanitizeLogin(input))

\* the insights records inside the comparison call rq returned
InsightsOf(objs, rq) == {objs[rq.ret].userA, objs[rq.ret].userB}

\* C27: at the moment compareUsers without forceRefresh returns a comparison,
\* the insights records inside it were fetched at most one TTL ago: an insights
\* record is stored with the TTL at the moment its fetch completes, so the
\* entry of a record inside the comparison has not passed its expiry.
C27_ReturnedInsightsWithinTtl ==
  [][\A r \in Reqs :
       (/\ req[r].pc # "done" /\ req'[r].pc = "done"
        /\ req'[r].kind = "compare" /\ ~req'[r].force
        /\ Returned(req'[r]))
       => \A k \in DOMAIN insights' :
            insights'[k].value \in InsightsOf(objects', req'[r])
              => now' - (insights'[k].expiresAt - DefaultTtlMs) <= DefaultTtlMs]_vars

\* C29: two compareUsers calls that look up the same key of the comparison
\* cache have the same ordered pair of lower-cased normalized handles.
C29_KeyInjective ==
  \A r1, r2 \in Reqs :
    (/\ req[r1].kind \in {"compare", "post"} /\ req[r1].cmp # "off"
     /\ req[r2].kind \in {"compare", "post"} /\ req[r2].cmp # "off"
     /\ req[r1].cmpKey = req[r2].cmpKey)
    => /\ HandleOf(req[r1].a) = HandleOf(req[r2].a)
       /\ HandleOf(req[r1].b) = HandleOf(req[r2].b)

\* C30: every upstream call is issued for a non-empty handle, and every key
\* of the insights cache is a non-empty handle.
C30_UpstreamHandleNonEmpty ==
  /\ \A r \in Reqs : \A s \in Sides :
       LET sd == req[r].side[s] IN
       (sd.user # "off" \/ sd.repos # "off" \/ sd.gql \notin {"off", "null"})
         => sd.login # <<>>
  /\ <<>> \notin DOMAIN insights

\* C11: a compareUsers call that is answered from the comparison cache gets a
\* comparison built for its own ordered pair of handles; and a call for
\* (b, a), a and b being different handles, made after a call for (a, b) has
\* stored its comparison, runs its own factory and returns another object.
C11_PairOrderIsSignificant ==
  \A r \in Reqs :
    req[r].kind = "compare" =>
      /\ req[r].cmp = "hit" =>
           LET o == objects[req[r].ret] IN
           /\ toLowerCase(objects[o.userA].login) = HandleOf(req[r].a)
           /\ toLowerCase(objects[o.userB].login) = HandleOf(req[r].b)
      /\ \A r2 \in Reqs \ {r} :
           (/\ req[r2].kind = "compare" /\ req[r2].cmp = "ok"
            /\ req[r2].ret < req[r].startRef
            /\ req[r].cmp # "off"
            /\ HandleOf(req[r].a) = HandleOf(req[r2].b)
            /\ HandleOf(req[r].b) = HandleOf(req[r2].a)
            /\ HandleOf(req[r].a) # HandleOf(req[r].b))
           => /\ req[r].cmp \in {"wait", "ok"}
              /\ req[r].cmpKey # req[r2].cmpKey
              /\ req[r].ret # req[r2].ret

\* C11 witness: compareUsers(b, a) without forceRefresh has returned its own
\* comparison while the entry of compareUsers(a, b) is stored
C11_Witness ==
  \E r \in Reqs : \E r2 \in Reqs \ {r} :
    /\ req[r].kind = "compare" /\ req[r2].kind = "compare"
    /\ req[r2].cmp = "ok" /\ req[r2].ret < req[r].startRef
    /\ ~req[r].force /\ req[r].cmp = "ok"
    /\ HandleOf(req[r].a) = HandleOf(req[r2].b)
    /\ HandleOf(req[r].b) = HandleOf(req[r2].a)
    /\ HandleOf(req[r].a) # HandleOf(req[r].b)
    /\ req[r2].cmpKey \in DOMAIN comparisons
    /\ comparisons[req[r2].cmpKey].value = req[r2].ret

\* the insights objects that were stored for handle h before call rq started
StoredBefore(rq, h) ==
  {ref \in 1..Len(objects) :
     /\ ref < rq.startRef
     /\ objects[ref].type = "insights"
     /\ toLowerCase(objects[ref].login) = h}

\* C12: the bare form, the @ form and the profile-URL forms of a handle, in any
\* letter case, give the same insights cache key, the lower-cased handle; so
\* a getUserInsights call without forceRefresh, made in one form after a call
\* in any form of the same handle has stored its record, is answered with the
\* record stored last.
C12_FormsShareOneKey ==
  /\ \A h \in FormHandles : \A x \in Forms(h) :
       ~SanitizeThrows(x) /\ HandleOf(x) = toLowerCase(h)
  /\ \A r \in Reqs :
       LET sd == req[r].side["A"] IN
       (req[r].kind = "insights" /\ ~req[r].force
          /\ StoredBefore(req[r], HandleOf(req[r].a)) # {})
       => /\ sd.st = "hit"
          /\ sd.val \in StoredBefore(req[r], HandleOf(req[r].a))
          /\ \A ref \in StoredBefore(req[r], HandleOf(req[r].a)) : ref <= sd.val

\* C12 witness: a lookup by profile URL is answered with the record stored by a
\* lookup through the @ form in another letter case
C12_Witness ==
  \E r \in Reqs : \E r2 \in Reqs \ {r} :
    /\ req[r].kind = "insights" /\ req[r2].kind = "insights"
    /\ Head(req[r2].a) = "@" /\ req[r2].side["A"].st = "ok"
    /\ Head(req[r].a) = "https:" /\ req[r].side["A"].st = "hit"
    /\ req[r].side["A"].val = req[r2].side["A"].val
    /\ req[r].side["A"].login # req[r2].side["A"].login

\* the repositories of the pages received so far, in order
Received(got) == Flatten([i \in 1..Len(got) |-> got[i].batch])

\* the loop of fetchUserRepositories goes on after this page
GoesOn(pg) == pg.next /\ Len(pg.batch) >= 100

\* C13: the listing is requested page 1, 2, 3 in this order and never a fourth
\* time; a further page is requested only after a page of at least 100 items
\* with a continuation link; the fetch ends at the first page that is
\* shorter or has no link, and at page 3 in any case, with all items of the
\* pages received, at most 300; a failed page rejects getUserInsights, which
\* then returns and stores no record.
C13_AtMostThreePages ==
  \A r \in Reqs : \A s \in Sides :
    LET sd == req[r].side[s]
        k == Len(sd.got)
    IN
    /\ k <= 3
    /\ \A i \in 1..k : sd.got[i].page = i
    /\ \A i \in 1..(k - 1) : GoesOn(sd.got[i])
    /\ sd.repos = "wait" =>
         /\ sd.page = k + 1
         /\ k >= 1 => GoesOn(sd.got[k])
    /\ sd.repos = "ok" =>
         /\ k >= 1
         /\ ~GoesOn(sd.got[k]) \/ k = 3
         /\ sd.data = Received(sd.got)
         /\ Len(sd.data) <= 300
    /\ sd.repos = "err" =>
         /\ sd.st = "err" /\ sd.errType = "GitHubApiError"
         /\ sd.val = Undefined
         /\ NotWrittenBy(req[r], insights, SideKey(sd))

\* C13 witness: the fetch has ended at page 3 although that page was full and
\* had a continuation link
C13_Witness ==
  \E r \in Reqs :
    LET sd == req[r].side["A"] IN
    /\ sd.repos = "ok" /\ Len(sd.got) = 3 /\ GoesOn(sd.got[3])
    /\ Len(sd.data) = 300

\* the sum of field f over the repositories in repos
SumField(repos, f) == SumOf([i \in 1..Len(repos) |-> repos[i][f]])

\* C20: the totals of every insights record are the sums of stargazers_count,
\* forks_count, watchers_count and open_issues_count over the repositories
\* of the pages the fetch received, no more and no fewer; they are all zero
\* when no repository was received.
C20_TotalsAreExactSums ==
  \A r \in Reqs : \A s \in Sides :
    LET sd == req[r].side[s] IN
    sd.st = "ok" =>
      LET totals == objects[sd.val].totals
          fetched == Received(sd.got)
      IN
      /\ totals.stars = SumField(fetched, "stargazers_count")
      /\ totals.forks = SumField(fetched, "forks_count")
      /\ totals.watchers = SumField(fetched, "watchers_count")
      /\ totals.issues = SumField(fetched, "open_issues_count")
      /\ fetched = <<>> =>
           totals = [stars |-> 0, forks |-> 0, watchers |-> 0, issues |-> 0]
      /\ Len(objects[sd.val].repositories) = Len(fetched)

\* C20 witness: a record built from two pages, a full one and a short one
C20_Witness ==
  \E r \in Reqs :
    LET sd == req[r].side["A"] IN
    /\ sd.st = "ok" /\ Len(sd.got) = 2 /\ Len(sd.got[2].batch) = 1
    /\ objects[sd.val].totals.stars = 100 * sd.got[1].batch[1].stargazers_count + 2
    /\ objects[sd.val].totals.forks > 0

----------------------------------------------------------------------------
(* Claims on the cache (SpecCache)                                         *)

\* the latest set() of the key just operated on
LastSetOfOp == lastSet[lastOp.key]

\* C1: a remember() that starts inside the TTL window of the entry an earlier
\* remember() stored (no other set or clear of the key in between) does not
\* call its factory and returns that same value, so the two calls invoke the
\* factory once in all; one that starts after the window calls it again.
C1_RememberOncePerWindow ==
  (lastOp.op = "remember" /\ LastSetOfOp.via = "remember") =>
    /\ InWindow(LastSetOfOp, now) =>
         (~lastOp.invoked /\ lastOp.value = LastSetOfOp.value)
    /\ (LastSetOfOp.has /\ ~InWindow(LastSetOfOp, now)) => lastOp.invoked

\* C1 witness: the second call is made at the last instant of the window
C1_Witness ==
  /\ lastOp.op = "remember" /\ LastSetOfOp.via = "remember"
  /\ now = LastSetOfOp.at + DefaultTtlMs /\ LastSetOfOp.ttl = NoTtl
  /\ ~lastOp.invoked /\ lastOp.value = LastSetOfOp.value

\* C3 as claimed: a lookup that begins while another lookup of the key is
\* still computing does not run the factory a second time.
C3_SingleFlight ==
  (lastOp.op = "remember" /\ lastOp.racing) => ~lastOp.invoked

\* C3 amended: a lookup that begins while another lookup of the key is still
\* computing runs its own factory exactly when it finds no live entry; only a
\* live entry, never a computation in flight, spares the factory.
C3_OnlyLiveEntriesDeduplicate ==
  (lastOp.op = "remember" /\ lastOp.racing) =>
    (lastOp.invoked <=> ~InWindow(LastSetOfOp, now))

\* C3 witness: two factories for one key are in flight
C3_Witness ==
  /\ lastOp.op = "remember" /\ lastOp.racing /\ lastOp.invoked
  /\ \A p \in Callers : caller[p].pc = "factory" /\ caller[p].key = lastOp.key

\* C4: get(key) returns the value of the latest set of the key exactly when
\* that set's expiry (its time + its ttl, or + the default) is not earlier
\* than now and no clear followed it; otherwise undefined, and then the key
\* is no longer in the store.
C4_GetReturnsLiveLatestSet ==
  lastOp.op = "get" =>
    /\ lastOp.value = IF InWindow(LastSetOfOp, now) THEN LastSetOfOp.value ELSE Undefined
    /\ ~InWindow(LastSetOfOp, now) => lastOp.key \notin DOMAIN store

\* C4 witness: a get finds an entry set with an explicit ttl expired
C4_Witness ==
  /\ lastOp.op = "get" /\ lastOp.value = Undefined
  /\ LastSetOfOp.has /\ LastSetOfOp.ttl # NoTtl /\ now > LastSetOfOp.at + TickMs
  /\ lastOp.key \notin DOMAIN store

----------------------------------------------------------------------------
(* Claims on the comparison (SpecCompare)                                  *)

\* the template ids of a band
Pool(band) == {MEME_TEMPLATES[band][i] : i \in 1..Len(MEME_TEMPLATES[band])}

\* user A has 500 stars and 10 followers, user B 350 stars and 400 followers,
\* and they agree on everything else
StarsAgainstFollowers ==
  /\ profiles # <<>>
  /\ profiles[1].totals.stars = 500 /\ profiles[1].followers = 10
  /\ profiles[2].totals.stars = 350 /\ profiles[2].followers = 400
  /\ profiles[1].publicRepos = profiles[2].publicRepos
  /\ profiles[1].contributions = profiles[2].contributions
  /\ profiles[1].languages = profiles[2].languages

\* C14 as stated: the comparison of the 500/10 and 350/400 profiles has hero
\* metric "stars" with gap 150, a "dominant" template, and a summary that names
\* A as the winner on stars.
C14_HeroIsStars ==
  StarsAgainstFollowers /\ comparison # None =>
    LET result == comparison[1] IN
    /\ result.heroMetric # None
    /\ result.heroMetric[1].id = "stars"
    /\ Abs(result.heroMetric[1].diff) = Whole(150)
    /\ result.memePrompt[1].templateId \in Pool("dominant")
    /\ Len(result.summary) = 8
    /\ result.summary[1] = result.userA.login
    /\ result.summary[5] = "repository stars"

\* C14, amended: the comparison of the 500/10 and 350/400 profiles has hero
\* metric "followers" (diff -390, the largest magnitude; stars has 150), a
\* "dominant" template, and the summary "b outshines a on followers by 390".
C14_HeroIsFollowers ==
  StarsAgainstFollowers /\ comparison # None =>
    LET result == comparison[1] IN
    /\ result.heroMetric # None
    /\ result.heroMetric[1].id = "followers"
    /\ result.heroMetric[1].diff = 0 - Whole(390)
    /\ result.metrics[2].id = "stars" /\ result.metrics[2].diff = Whole(150)
    /\ result.memePrompt[1].templateId \in Pool("dominant")
    /\ result.summary = <<result.userB.login, " outshines ", result.userA.login,
                          " on ", "followers", " by ", Whole(390),
                          ". Check the charts for the full story.">>

C14_Witness ==
  /\ StarsAgainstFollowers
  /\ comparison # None
  /\ comparison[1].heroMetric # None
  /\ comparison[1].heroMetric[1].id = "followers"

\* the hero metric is the first, in the order of the list, of the metrics that
\* are not "equal" and have the largest magnitude of diff; null if there is none
HeroIsFirstLargest(result) ==
  LET metrics == result.metrics
      unequal == {i \in 1..Len(metrics) : metrics[i].direction # "equal"}
  IN
  /\ result.heroMetric = None <=> unequal = {}
  /\ unequal # {} =>
       \E i \in unequal :
         /\ result.heroMetric[1] = metrics[i]
         /\ \A j \in unequal :
              /\ Abs(metrics[j].diff) <= Abs(metrics[i].diff)
              /\ Abs(metrics[j].diff) = Abs(metrics[i].diff) => i <= j

\* building the comparison of the same profiles again
SameHeroAgain ==
  comparison # None /\ comparison' # None /\ profiles' = profiles =>
    comparison'[1].heroMetric = comparison[1].heroMetric

\* C15: the hero metric is, among the metrics whose direction is not "equal",
\* the one with the largest absolute diff, the earliest in the list order if
\* several have it; it is an element of the list (null when every metric is
\* "equal"), and the same each time it is selected from the same list.
C15_HeroIsEarliestLargest ==
  /\ [](comparison # None => HeroIsFirstLargest(comparison[1]))
  /\ [][SameHeroAgain]_vars

\* stars and followers both differ by 150, nothing differs by more: stars it is
C15_Witness ==
  /\ comparison # None
  /\ comparison[1].metrics[2].diff = Whole(150)
  /\ comparison[1].metrics[3].diff = 0 - Whole(150)
  /\ comparison[1].metrics[1].direction = "equal"
  /\ comparison[1].heroMetric = Some(comparison[1].metrics[2])

\* C16: for the values a and b of every metric, direction is "equal" if
\* |a - b| <= 0.01, and otherwise "up" exactly when a > b and "down" exactly
\* when a < b.
C16_DirectionFollowsDifference ==
  comparison # None =>
    \A i \in 1..Len(comparison[1].metrics) :
      LET metric == comparison[1].metrics[i]
          a == metric.userA
          b == metric.userB
      IN
      /\ Abs(a - b) <= 10 => metric.direction = "equal"
      /\ Abs(a - b) > 10 =>
           /\ metric.direction = "up" <=> a > b
           /\ metric.direction = "down" <=> a < b

\* two top-language shares 0.01 apart are "equal", in the same comparison as a
\* metric that is "down"
C16_Witness ==
  /\ comparison # None
  /\ comparison[1].metrics[6].userA - comparison[1].metrics[6].userB = 10
  /\ comparison[1].metrics[6].direction = "equal"
  /\ \E i \in 1..7 : comparison[1].metrics[i].direction = "down"

\* the two profiles have the same value on each of the seven metrics
SameOnAllMetrics ==
  /\ comparison # None
  /\ Len(comparison[1].metrics) = 7
  /\ \A i \in 1..7 : comparison[1].metrics[i].userA = comparison[1].metrics[i].userB

\* C17: two profiles with the same values on all seven metrics give
\* heroMetric = null, the tie sentence with both logins, and a template id of the
\* tie pool, of no other pool.
C17_IdenticalProfilesTie ==
  SameOnAllMetrics =>
    LET result == comparison[1] IN
    /\ result.heroMetric = None
    /\ result.summary = <<result.userA.login, " and ", result.userB.login,
                          " are neck and neck across all tracked metrics.">>
    /\ result.memePrompt # None
    /\ result.memePrompt[1].templateId \in Pool("tie")
    /\ result.memePrompt[1].templateId
         \notin Pool("dominant") \cup Pool("close") \cup Pool("upset")

C17_Witness ==
  /\ SameOnAllMetrics
  /\ comparison[1].memePrompt[1].templateId = MEME_TEMPLATES.tie[3]
  /\ comparison[1].userA.contributions # None

\* C18: with a hero metric the template id is of the "dominant" pool exactly when
\* gap = |hero diff| > 100, of the "close" pool exactly when gap < 10, and of
\* the "upset" pool otherwise, gap = 10 and gap = 100 included, whatever
\* Math.random() returns.
C18_BandFollowsGap ==
  comparison # None /\ comparison[1].heroMetric # None =>
    LET gap == Abs(comparison[1].heroMetric[1].diff)
        templateId == comparison[1].memePrompt[1].templateId
    IN
    /\ templateId \in Pool("dominant") <=> gap > 100000
    /\ templateId \in Pool("close") <=> gap < 10000
    /\ templateId \in Pool("upset") <=> (gap >= 10000 /\ gap <= 100000)
    /\ templateId \notin Pool("tie")

\* a hero gap of exactly 100 with the last template of the "upset" pool
C18_Witness ==
  /\ comparison # None
  /\ comparison[1].heroMetric # None
  /\ Abs(comparison[1].heroMetric[1].diff) = 100000
  /\ comparison[1].memePrompt[1].templateId = MEME_TEMPLATES.upset[3]

----------------------------------------------------------------------------
(* Claims on the language statistics (SpecLanguages)                       *)

\* the sum of the percentages of a language list, in hundredths
PercentageSum(stats) == SumOf([i \in 1..Len(stats) |-> stats[i].percentage])

\* C19: the percentages of the language list aggregateLanguageStats returns sum
\* to at most 100.
C19_PercentagesSumToAtMost100 ==
  languageStats # None => PercentageSum(languageStats[1]) <= 100 * 100

\* the repositories of the graph response that have an edge for the language
ReposWith(name) ==
  {r \in 1..Len(graphRepos) :
     \E e \in 1..Len(graphRepos[r].languages) : graphRepos[r].languages[e].name = name}

\* the languages of the graph response
GraphLanguages ==
  UNION {{graphRepos[r].languages[e].name : e \in 1..Len(graphRepos[r].languages)} :
           r \in 1..Len(graphRepos)}

\* C25: the language list is in non-increasing order of bytes and has at most
\* 8 entries, and the repoCount of an entry is the number of repositories that
\* have the language, however many edges each of them has for it.
C25_SortedTopEightCountedOnce ==
  languageStats # None =>
    LET stats == languageStats[1] IN
    /\ Len(stats) <= 8
    /\ \A i \in 1..(Len(stats) - 1) : stats[i].bytes >= stats[i + 1].bytes
    /\ \A i \in 1..Len(stats) : stats[i].repoCount = Cardinality(ReposWith(stats[i].name))

\* more than 8 languages, and a language with four edges in three repositories
C25_Witness ==
  /\ languageStats # None
  /\ Cardinality(GraphLanguages) > 8
  /\ Len(languageStats[1]) = 8
  /\ languageStats[1][1].bytes > languageStats[1][8].bytes
  /\ \E i \in 1..8 :
        /\ languageStats[1][i].repoCount = 3
        /\ Len(graphRepos) = 3
        /\ \E e, f \in 1..Len(graphRepos[2].languages) :
              /\ e # f
              /\ graphRepos[2].languages[e].name = languageStats[1][i].name
              /\ graphRepos[2].languages[f].name = languageStats[1][i].name

----------------------------------------------------------------------------
(* Claims on the contribution statistics (SpecStreak)                      *)

\* the length of the run of days with a count > 0 that ends at day i
RunEndingAt(counts, i) ==
  CHOOSE k \in 0..i :
    /\ \A j \in (i - k + 1)..i : counts[j] > 0
    /\ k < i => counts[i - k] = 0

\* C21: for the daily counts in date order, streak.current is the length of
\* the run of days with count > 0 that ends at the last day (0 when the last
\* count is 0) and streak.longest the length of the longest such run anywhere;
\* [1,1,0,1,1,1,0,0] gives current 0 and longest 3.
C21_StreaksAreRuns ==
  contributionStats # None =>
    LET streak == contributionStats[1].streak
        n == Len(dayCounts)
    IN
    /\ streak.current = (IF n = 0 THEN 0 ELSE RunEndingAt(dayCounts, n))
    /\ \A i \in 1..n : RunEndingAt(dayCounts, i) <= streak.longest
    /\ n = 0 => streak.longest = 0
    /\ n > 0 => \E i \in 1..n : RunEndingAt(dayCounts, i) = streak.longest
    /\ dayCounts = <<1, 1, 0, 1, 1, 1, 0, 0>> =>
         streak.current = 0 /\ streak.longest = 3

C21_Witness ==
  /\ dayCounts = <<1, 1, 0, 1, 1, 1, 0, 0>>
  /\ contributionStats # None
  /\ contributionStats[1].streak = [current |-> 0, longest |-> 3]

----------------------------------------------------------------------------
(* More claims on the comparison (SpecCompare)                             *)

\* the ids of the metrics, in the order of the list
MetricIds ==
  <<"repositories", "stars", "followers", "weekly_contributions",
    "yearly_contributions", "top_language_share", "pull_requests">>

\* the values a profile without contribution statistics or languages has
ZeroWhereMissing(user, value) ==
  /\ user.contributions = None => value[4] = 0 /\ value[5] = 0 /\ value[7] = 0
  /\ user.languages = <<>> => value[6] = 0

\* C22: every comparison has exactly the seven metrics repositories, stars,
\* followers, weekly_contributions, yearly_contributions, top_language_share,
\* pull_requests, in this order; userA and userB of every metric are numbers,
\* 0 where the user has no contribution statistics or no languages.
C22_SevenPopulatedMetrics ==
  comparison # None =>
    LET metrics == comparison[1].metrics IN
    /\ Len(metrics) = 7
    /\ \A i \in 1..7 :
         /\ metrics[i].id = MetricIds[i]
         /\ metrics[i].userA \in Int
         /\ metrics[i].userB \in Int
    /\ Len(metrics) = 7 =>
         /\ ZeroWhereMissing(comparison[1].userA, [i \in 1..7 |-> metrics[i].userA])
         /\ ZeroWhereMissing(comparison[1].userB, [i \in 1..7 |-> metrics[i].userB])

\* user A without contribution statistics and languages against a user B with both
C22_Witness ==
  /\ comparison # None
  /\ comparison[1].userA.contributions = None
  /\ comparison[1].userA.languages = <<>>
  /\ comparison[1].userB.contributions # None
  /\ comparison[1].metrics[7].userA = 0
  /\ comparison[1].metrics[7].direction = "down"

----------------------------------------------------------------------------
(* Claims on the narrative (SpecPrompt)                                    *)

\* C24: with a hero metric, the two values of the hero metric differ, the user
\* with the strictly larger one is user A exactly when the hero diff >= 0, and
\* it is this user the summary names first (the other second) and the texts of
\* the meme prompt are written for as the winner.
C24_WinnerHasLargerValue ==
  comparison # None /\ comparison[1].heroMetric # None =>
    LET result == comparison[1]
        heroMetric == result.heroMetric[1]
        aLarger == heroMetric.userA > heroMetric.userB
        winner == IF aLarger THEN result.userA ELSE result.userB
        loser == IF aLarger THEN result.userB ELSE result.userA
        texts == QuipsFor(result, Scenario(Abs(heroMetric.diff)), aLarger)
    IN
    /\ heroMetric.userA # heroMetric.userB
    /\ aLarger <=> heroMetric.diff >= 0
    /\ result.summary[1] = winner.login
    /\ result.summary[3] = loser.login
    /\ \E i \in 1..3 : result.memePrompt[1].topText = texts.top[i]
    /\ \E i \in 1..3 : result.memePrompt[1].bottomText = texts.bottom[i]

\* user B leads by 5 followers and nothing else differs
C24_Witness ==
  /\ comparison # None
  /\ comparison[1].heroMetric # None
  /\ comparison[1].heroMetric[1].diff = 0 - Whole(5)
  /\ comparison[1].summary[1] = <<"b">>
  /\ comparison[1].memePrompt[1].topText = "b barely edges a on followers"
  /\ comparison[1].memePrompt[1].bottomText = "Scoreboard: b 15 vs a 10."

----------------------------------------------------------------------------
(* Claims on one getUserInsights call (SpecFetch)                          *)

\* the profile, the listing and the graph call of sd have completed with
\* success (without a token the graph call resolves null)
AllThreeDone(sd) == sd.user = "ok" /\ sd.repos = "ok" /\ sd.gql \in {"ok", "null"}

\* some call of sd has been issued and has not answered
Outstanding(sd) == sd.user = "wait" \/ sd.repos = "wait" \/ sd.gql = "wait"

\* a miss issues its three calls in the step it starts in
IssuedTogether ==
  \A r \in Reqs : \A s \in Sides :
    (req[r].side[s].st # "wait" /\ req'[r].side[s].st = "wait") =>
      /\ req'[r].side[s].user = "wait"
      /\ req'[r].side[s].repos = "wait"
      /\ req'[r].side[s].gql = (IF token THEN "wait" ELSE "null")

\* every entry set in the insights cache is set by a miss whose three calls have
\* all completed with success, in the step the miss resolves in
WrittenWhenDone ==
  \A k \in DOMAIN insights' :
    (k \notin DOMAIN insights \/ insights'[k] # insights[k]) =>
      \E r \in Reqs : \E s \in Sides :
        /\ req[r].side[s].st = "wait"
        /\ req'[r].side[s].st = "ok"
        /\ AllThreeDone(req'[r].side[s])
        /\ SideKey(req'[r].side[s]) = k
        /\ insights'[k].value = req'[r].side[s].val

\* C23: a getUserInsights miss issues the profile, listing and graph calls
\* together, before awaiting any; its record is built and written to the
\* insights cache only when all three have completed with success, and while
\* one of them is outstanding (or has failed) the miss has written nothing.
C23_WriteAfterAllThree ==
  /\ [][IssuedTogether /\ WrittenWhenDone]_vars
  /\ [](\A r \in Reqs : \A s \in Sides :
          LET sd == req[r].side[s] IN
          /\ sd.st = "ok" => AllThreeDone(sd)
          /\ (Outstanding(sd) \/ sd.st = "err") =>
               /\ sd.st # "ok"
               /\ sd.val = Undefined)

\* one miss has written its record while the other, begun earlier, still waits
\* for its listing
C23_Witness ==
  \E r1 \in Reqs : \E r2 \in Reqs \ {r1} :
    /\ req[r1].n < req[r2].n
    /\ req[r1].side["A"].st = "wait"
    /\ req[r1].side["A"].user = "ok" /\ req[r1].side["A"].gql = "ok"
    /\ req[r1].side["A"].repos = "wait"
    /\ req[r2].side["A"].st = "ok" /\ req[r2].side["A"].gql = "ok"
    /\ insights[<<"a">>].value = req[r2].side["A"].val

====
